---- MODULE Spec2Model ----
(***************************************************************************)
(* Shell-E: planning, safety classification and execution pipeline.        *)
(*                                                                         *)
(* Text is modelled by TLA+ strings; Len, SubSeq, Head, Tail and \o act on *)
(* them as on sequences of characters, a character being a string of       *)
(* length one.  Non-ASCII decoration of the user-visible reason strings    *)
(* (emoji, em dash) is written in ASCII.                                   *)
(***************************************************************************)
EXTENDS Integers, Sequences, FiniteSets, TLC

VARIABLES
    probe,           \* the call under test of the pure-function specifications
    processing,      \* Model.processing
    status,          \* Model.status
    pendingConfirm,  \* Model.pendingConfirm: <<>> for nil, else <<turn>>
    messages,        \* Model.messages
    quit,            \* the program has been told to quit
    inferring,       \* commands returned by runInference that have not run yet
    inferDone,       \* inferDoneMsg values not yet delivered to Update
    executing,       \* commands returned by runExecution that have not run yet
    execDone,        \* execDoneMsg values not yet delivered to Update
    mem,             \* the Memory
    disk,            \* memory.json
    notes,           \* the exchanges appended to the daily note
    executorDir,     \* Executor.WorkingDir
    nextId,          \* history: the number of the next turn
    entered,         \* history: how many inputs have been submitted
    turns,           \* history: per turn, what happened to it
    execCalls,       \* history: the calls made to Executor.Execute
    decisions        \* history: the plans handlePlan has assessed, with the outcome

session == <<processing, status, pendingConfirm, messages, quit, inferring, inferDone,
             executing, execDone, mem, disk, notes, executorDir, nextId, entered, turns,
             execCalls, decisions>>

vars == <<probe, session>>

(***************************************************************************)
(* Bounds                                                                  *)
(***************************************************************************)
\* number of fragments concatenated into one command given to Check
MaxFrags == 2
\* number of fragments concatenated into one text field of a plan
MaxPlanFrags == 2
\* number of fragments concatenated into one raw model output
MaxRawFrags == 2
\* number of requests sent to the planner in one session
MaxTurns == 2
\* number of inputs submitted with Enter in one session
MaxInputs == 3
MaxEscFrags == 3

(***************************************************************************)
(* Go's strings package, as used by the program                            *)
(***************************************************************************)
UpperChars == "ABCDEFGHIJKLMNOPQRSTUVWXYZ"
LowerChars == "abcdefghijklmnopqrstuvwxyz"

CharAt(s, i) == SubSeq(s, i, i)

LowerChar(c) ==
    IF \E i \in 1..26 : CharAt(UpperChars, i) = c
    THEN CharAt(LowerChars, CHOOSE i \in 1..26 : CharAt(UpperChars, i) = c)
    ELSE c

\* the concatenation of pieces[lo..hi]; the halving keeps the evaluation shallow
RECURSIVE ConcatRange(_, _, _)
ConcatRange(pieces, lo, hi) ==
    IF lo > hi THEN ""
    ELSE IF lo = hi THEN pieces[lo]
    ELSE LET mid == (lo + hi) \div 2
         IN ConcatRange(pieces, lo, mid) \o ConcatRange(pieces, mid + 1, hi)

MinOf(S) == CHOOSE i \in S : \A j \in S : i <= j
MaxOf(S) == CHOOSE i \in S : \A j \in S : i >= j

ToLower(s) == ConcatRange([i \in 1..Len(s) |-> LowerChar(CharAt(s, i))], 1, Len(s))

IsSpace(c) == c \in {" ", "\n", "\t", "\r", "\f"}

TrimSpace(s) ==
    LET keep == {i \in 1..Len(s) : ~IsSpace(CharAt(s, i))}
    IN IF keep = {} THEN "" ELSE SubSeq(s, MinOf(keep), MaxOf(keep))

HasPrefix(s, p) == Len(s) >= Len(p) /\ SubSeq(s, 1, Len(p)) = p

\* strings.Index, 1-based; 0 when sub does not occur (Go: -1)
Index(s, sub) ==
    LET hits == {i \in 1..(Len(s) - Len(sub) + 1) : SubSeq(s, i, i + Len(sub) - 1) = sub}
    IN IF hits = {} THEN 0 ELSE MinOf(hits)

Contains(s, sub) == Index(s, sub) # 0

\* strings.ReplaceAll: the occurrences of old, left to right and not overlapping
RECURSIVE ReplaceAll(_, _, _)
ReplaceAll(s, old, new) ==
    LET At(idx) ==
            IF idx = 0 THEN s
            ELSE SubSeq(s, 1, idx - 1) \o new \o ReplaceAll(SubSeq(s, idx + Len(old), Len(s)), old, new)
    IN IF old = "" THEN new \o ConcatRange([i \in 1..Len(s) |-> CharAt(s, i) \o new], 1, Len(s))
       ELSE At(Index(s, old))

(***************************************************************************)
(* safety.Checker                                                          *)
(***************************************************************************)
blockedPatterns == <<
    [match |-> "format-volume", reason |-> "Cannot format volumes - this destroys data permanently"],
    [match |-> "format c:", reason |-> "Cannot format system drive"],
    [match |-> "format d:", reason |-> "Cannot format drives"],
    [match |-> "remove-item -recurse c:\\windows", reason |-> "Cannot delete Windows system directory"],
    [match |-> "remove-item -recurse c:/windows", reason |-> "Cannot delete Windows system directory"],
    [match |-> "del /s /q c:\\windows", reason |-> "Cannot delete Windows system directory"],
    [match |-> "rd /s /q c:\\windows", reason |-> "Cannot delete Windows system directory"],
    [match |-> "rm -rf /", reason |-> "Cannot delete root directory"],
    [match |-> "del /s /q c:\\", reason |-> "Cannot recursively delete system drive"],
    [match |-> "rd /s /q c:\\", reason |-> "Cannot recursively delete system drive"],
    [match |-> ":(){:|:&};:", reason |-> "Fork bomb detected"],
    [match |-> "reg delete hklm", reason |-> "Cannot modify system registry"],
    [match |-> "remove-itemproperty hklm:", reason |-> "Cannot modify system registry"],
    [match |-> "net user administrator", reason |-> "Cannot modify administrator account"],
    [match |-> "set-executionpolicy unrestricted", reason |-> "Cannot weaken security policy"] >>

confirmPatterns == <<
    [match |-> "stop-process", reason |-> "This will terminate a running process"],
    [match |-> "taskkill", reason |-> "This will terminate a running process"],
    [match |-> "kill", reason |-> "This will terminate processes"],
    [match |-> "shutdown", reason |-> "This will shut down the computer"],
    [match |-> "restart-computer", reason |-> "This will restart the computer"],
    [match |-> "stop-computer", reason |-> "This will shut down the computer"],
    [match |-> "remove-item", reason |-> "This will delete files or folders"],
    [match |-> "del ", reason |-> "This will delete files"],
    [match |-> "rmdir", reason |-> "This will remove a directory"],
    [match |-> "rd ", reason |-> "This will remove a directory"],
    [match |-> "netsh", reason |-> "This modifies network configuration"],
    [match |-> "set-dnsclientserveraddress", reason |-> "This changes DNS settings"],
    [match |-> "stop-service", reason |-> "This will stop a system service"],
    [match |-> "set-service", reason |-> "This modifies a system service"],
    [match |-> "sc stop", reason |-> "This will stop a system service"],
    [match |-> "sc delete", reason |-> "This will delete a system service"] >>

\* index of the first pattern of the table that occurs in lower, 0 when none does
FirstMatch(table, lower) ==
    LET hits == {i \in 1..Len(table) : Contains(lower, table[i].match)}
    IN IF hits = {} THEN 0 ELSE MinOf(hits)

BlockedReason(p) == "BLOCKED: " \o p.reason
ConfirmReason(p) == p.reason \o " - confirm? (y/n)"

CheckLowered(command, lower) ==
    LET b == FirstMatch(blockedPatterns, lower)
        c == FirstMatch(confirmPatterns, lower)
    IN IF b # 0
       THEN [Level |-> "Blocked", Reason |-> BlockedReason(blockedPatterns[b]), Command |-> command]
       ELSE IF c # 0
       THEN [Level |-> "NeedsConfirm", Reason |-> ConfirmReason(confirmPatterns[c]), Command |-> command]
       ELSE [Level |-> "Safe", Reason |-> "", Command |-> command]

\* mutants of Check: the command is matched without lower-casing / without trimming
Check_NoLower(command) == CheckLowered(command, TrimSpace(command))
Check_NoTrim(command) == CheckLowered(command, ToLower(command))

Check(command) == CheckLowered(command, ToLower(TrimSpace(command)))

(***************************************************************************)
(* encoding/json as used on planner.CommandPlan                            *)
(*                                                                         *)
(* A decoded JSON value is a record [t, s, b, kv]: t is the kind of value, *)
(* s the text of a string, b a boolean, kv the members of an object in     *)
(* order.  The content of numbers and arrays is never read by the decoder  *)
(* of CommandPlan, so it is not kept.  A *string field is a sequence of    *)
(* zero (nil) or one string.                                               *)
(***************************************************************************)
JNull == [t |-> "null", s |-> "", b |-> FALSE, kv |-> <<>>]
JStr(x) == [t |-> "str", s |-> x, b |-> FALSE, kv |-> <<>>]
JBool(x) == [t |-> "bool", s |-> "", b |-> x, kv |-> <<>>]
JNum == [t |-> "num", s |-> "", b |-> FALSE, kv |-> <<>>]
JArr == [t |-> "arr", s |-> "", b |-> FALSE, kv |-> <<>>]
JObj(members) == [t |-> "obj", s |-> "", b |-> FALSE, kv |-> members]

ScanFail == [ok |-> FALSE, next |-> 0, v |-> JNull]
ScanOk(n, val) == [ok |-> TRUE, next |-> n, v |-> val]

IsJSONSpace(c) == c \in {" ", "\t", "\r", "\n"}
IsControl(c) == c \in {"\n", "\t", "\r", "\f"}
IsDigit(c) == c \in {"0", "1", "2", "3", "4", "5", "6", "7", "8", "9"}
IsHex(c) == IsDigit(c) \/ c \in {"a", "b", "c", "d", "e", "f", "A", "B", "C", "D", "E", "F"}

\* U+0008, which a TLA+ string literal cannot hold
Backspace == "<U+0008>"

\* the character a \uXXXX escape stands for
Rune(hex) ==
    LET h == ToLower(hex)
    IN CASE h = "0022" -> "\""
         [] h = "0026" -> "&"
         [] h = "003c" -> "<"
         [] h = "003e" -> ">"
         [] h = "005c" -> "\\"
         [] h = "007b" -> "{"
         [] h = "007d" -> "}"
         [] h = "0008" -> Backspace
         [] h = "000c" -> "\f"
         [] OTHER -> "<U+" \o h \o ">"

Unescape(e) ==
    CASE e = "\"" -> "\""
      [] e = "\\" -> "\\"
      [] e = "/" -> "/"
      [] e = "b" -> Backspace
      [] e = "f" -> "\f"
      [] e = "n" -> "\n"
      [] e = "r" -> "\r"
      [] e = "t" -> "\t"

RECURSIVE SkipWS(_, _)
SkipWS(s, i) == IF i <= Len(s) /\ IsJSONSpace(CharAt(s, i)) THEN SkipWS(s, i + 1) ELSE i

RECURSIVE SkipDigits(_, _)
SkipDigits(s, i) == IF i <= Len(s) /\ IsDigit(CharAt(s, i)) THEN SkipDigits(s, i + 1) ELSE i

\* the number of consecutive backslashes that end right before k, none before lo
RECURSIVE RunBack(_, _, _)
RunBack(s, k, lo) == IF k - 1 >= lo /\ CharAt(s, k - 1) = "\\" THEN 1 + RunBack(s, k - 1, lo) ELSE 0

\* The string literal whose first character after the opening quote is at lo.
\* The scanner reads it unit by unit (a character, a backslash with its escape
\* letter, \u with four hex digits); a character is the escape letter of a unit
\* exactly when an odd number of backslashes precedes it, so the literal ends at
\* the first quote preceded by an even number of them.
ScanString(s, lo) ==
    LET Escaped(k) == RunBack(s, k, lo) % 2 = 1
        HexOfU(k) == \E m \in (k - 4)..(k - 1) : m >= lo /\ CharAt(s, m) = "u" /\ Escaped(m)
        Bad(k, c) ==
            IF Escaped(k)
            THEN IF c = "u" THEN ~(k + 4 <= Len(s) /\ \A h \in (k + 1)..(k + 4) : IsHex(CharAt(s, h)))
                 ELSE c \notin {"\"", "\\", "/", "b", "f", "n", "r", "t"}
            ELSE IsControl(c)
        Piece(k, c) ==
            IF Escaped(k) THEN (IF c = "u" THEN Rune(SubSeq(s, k + 1, k + 4)) ELSE Unescape(c))
            ELSE IF c = "\\" \/ HexOfU(k) THEN ""
            ELSE c
        Upto(close) ==
            IF \E k \in lo..(close - 1) : Bad(k, CharAt(s, k)) THEN ScanFail
            ELSE ScanOk(close + 1,
                        JStr(ConcatRange([k \in lo..(close - 1) |-> Piece(k, CharAt(s, k))], lo, close - 1)))
        Among(closes) == IF closes = {} THEN ScanFail ELSE Upto(MinOf(closes))
    IN Among({j \in lo..Len(s) : CharAt(s, j) = "\"" /\ ~Escaped(j)})

\* the index after the number that starts at i, 0 when there is none
ScanNumber(s, i) ==
    LET Digits(from, to) == IF to = from THEN 0 ELSE to
        Exponent(c) ==
            IF c # 0 /\ c <= Len(s) /\ CharAt(s, c) \in {"e", "E"}
            THEN IF c + 1 <= Len(s) /\ CharAt(s, c + 1) \in {"+", "-"}
                 THEN Digits(c + 2, SkipDigits(s, c + 2))
                 ELSE Digits(c + 1, SkipDigits(s, c + 1))
            ELSE c
        Fraction(b) ==
            IF b # 0 /\ b <= Len(s) /\ CharAt(s, b) = "."
            THEN Exponent(Digits(b + 1, SkipDigits(s, b + 1)))
            ELSE Exponent(b)
        Whole(a) ==
            IF a > Len(s) \/ ~IsDigit(CharAt(s, a)) THEN 0
            ELSE IF CharAt(s, a) = "0" THEN Fraction(a + 1)
            ELSE Fraction(SkipDigits(s, a))
    IN Whole(IF CharAt(s, i) = "-" THEN i + 1 ELSE i)

RECURSIVE ScanValue(_, _), ScanMembers(_, _, _), ScanElements(_, _)

\* the members of an object, the first key expected at i
ScanMembers(s, i, acc) ==
    LET Closing(d, all) ==
            IF d > Len(s) THEN ScanFail
            ELSE IF CharAt(s, d) = "," THEN ScanMembers(s, SkipWS(s, d + 1), all)
            ELSE IF CharAt(s, d) = "}" THEN ScanOk(d + 1, JObj(all))
            ELSE ScanFail
        Member(k, v) ==
            IF ~v.ok THEN ScanFail
            ELSE Closing(SkipWS(s, v.next), Append(acc, [k |-> k.v.s, v |-> v.v]))
        Colon(k, c) ==
            IF c > Len(s) \/ CharAt(s, c) # ":" THEN ScanFail
            ELSE Member(k, ScanValue(s, SkipWS(s, c + 1)))
        Key(k) == IF ~k.ok THEN ScanFail ELSE Colon(k, SkipWS(s, k.next))
    IN IF i > Len(s) \/ CharAt(s, i) # "\"" THEN ScanFail
       ELSE Key(ScanString(s, i + 1))

\* the elements of an array, the first one expected at i
ScanElements(s, i) ==
    LET Closing(d) ==
            IF d > Len(s) THEN ScanFail
            ELSE IF CharAt(s, d) = "," THEN ScanElements(s, SkipWS(s, d + 1))
            ELSE IF CharAt(s, d) = "]" THEN ScanOk(d + 1, JArr)
            ELSE ScanFail
        Element(v) == IF ~v.ok THEN ScanFail ELSE Closing(SkipWS(s, v.next))
    IN Element(ScanValue(s, i))

\* the JSON value that starts at i
ScanValue(s, i) ==
    LET Object(j) ==
            IF j <= Len(s) /\ CharAt(s, j) = "}" THEN ScanOk(j + 1, JObj(<<>>))
            ELSE ScanMembers(s, j, <<>>)
        Array(j) ==
            IF j <= Len(s) /\ CharAt(s, j) = "]" THEN ScanOk(j + 1, JArr)
            ELSE ScanElements(s, j)
        Number(n) == IF n = 0 THEN ScanFail ELSE ScanOk(n, JNum)
        Starting(c) ==
            CASE c = "{" -> Object(SkipWS(s, i + 1))
              [] c = "[" -> Array(SkipWS(s, i + 1))
              [] c = "\"" -> ScanString(s, i + 1)
              [] c = "t" -> IF SubSeq(s, i, i + 3) = "true" THEN ScanOk(i + 4, JBool(TRUE)) ELSE ScanFail
              [] c = "f" -> IF SubSeq(s, i, i + 4) = "false" THEN ScanOk(i + 5, JBool(FALSE)) ELSE ScanFail
              [] c = "n" -> IF SubSeq(s, i, i + 3) = "null" THEN ScanOk(i + 4, JNull) ELSE ScanFail
              [] c = "-" \/ IsDigit(c) -> Number(ScanNumber(s, i))
              [] OTHER -> ScanFail
    IN IF i > Len(s) THEN ScanFail ELSE Starting(CharAt(s, i))

\* the zero value of planner.CommandPlan
ZeroPlan == [Command |-> <<>>, Shell |-> "", Response |-> "", Reasoning |-> "", Safe |-> FALSE]

\* one member of the object stored into the struct; err is set on a type mismatch
SetField(acc, key, v) ==
    LET name == ToLower(key)
        p == acc.plan
        mismatch == [acc EXCEPT !.err = "type"]
    IN CASE name = "command" ->
              IF v.t = "null" THEN [acc EXCEPT !.plan.Command = <<>>]
              ELSE IF v.t = "str" THEN [acc EXCEPT !.plan.Command = <<v.s>>]
              ELSE mismatch
         [] name \in {"shell", "response", "reasoning"} ->
              IF v.t = "null" THEN acc
              ELSE IF v.t = "str"
              THEN [acc EXCEPT !.plan = [p EXCEPT !.Shell = IF name = "shell" THEN v.s ELSE @,
                                                   !.Response = IF name = "response" THEN v.s ELSE @,
                                                   !.Reasoning = IF name = "reasoning" THEN v.s ELSE @]]
              ELSE mismatch
         [] name = "safe" ->
              IF v.t = "null" THEN acc
              ELSE IF v.t = "bool" THEN [acc EXCEPT !.plan.Safe = v.b]
              ELSE mismatch
         [] OTHER -> acc

RECURSIVE SetFields(_, _, _)
SetFields(acc, kv, i) ==
    IF i > Len(kv) THEN acc ELSE SetFields(SetField(acc, kv[i].k, kv[i].v), kv, i + 1)

\* json.Unmarshal(data, &plan) on a zero plan: err is "", "syntax" or "type"
Unmarshal(data) ==
    LET Stored(d) == IF d.err # "" THEN [err |-> d.err, plan |-> ZeroPlan] ELSE d
        Decoded(r) ==
            IF ~r.ok \/ SkipWS(data, r.next) <= Len(data) THEN [err |-> "syntax", plan |-> ZeroPlan]
            ELSE IF r.v.t = "null" THEN [err |-> "", plan |-> ZeroPlan]
            ELSE IF r.v.t # "obj" THEN [err |-> "type", plan |-> ZeroPlan]
            ELSE Stored(SetFields([err |-> "", plan |-> ZeroPlan], r.v.kv, 1))
    IN Decoded(ScanValue(data, SkipWS(data, 1)))

EscapeChar(c) ==
    CASE c = "\"" -> "\\\""
      [] c = "\\" -> "\\\\"
      [] c = "\n" -> "\\n"
      [] c = "\r" -> "\\r"
      [] c = "\t" -> "\\t"
      [] c = "\f" -> "\\u000c"
      [] c = "<" -> "\\u003c"
      [] c = ">" -> "\\u003e"
      [] c = "&" -> "\\u0026"
      [] OTHER -> c

EscapeString(s) == ConcatRange([i \in 1..Len(s) |-> EscapeChar(CharAt(s, i))], 1, Len(s))

Quote(s) == "\"" \o EscapeString(s) \o "\""

\* json.Marshal of a CommandPlan (and of the historyPlan, which has the same fields)
Marshal(plan) ==
    "{\"command\":" \o (IF plan.Command = <<>> THEN "null" ELSE Quote(plan.Command[1]))
    \o ",\"shell\":" \o Quote(plan.Shell)
    \o ",\"response\":" \o Quote(plan.Response)
    \o ",\"reasoning\":" \o Quote(plan.Reasoning)
    \o ",\"safe\":" \o (IF plan.Safe THEN "true" ELSE "false") \o "}"

(***************************************************************************)
(* planner: ExtractJSON, sanitizeJSON, ParseResponse                       *)
(***************************************************************************)
\* the value of ExtractJSON's depth counter after the character at i
DepthAfter(s, start, i) ==
    Cardinality({k \in start..i : CharAt(s, k) = "{"}) - Cardinality({k \in start..i : CharAt(s, k) = "}"})

\* mutant of ExtractJSON: the span ends at the first closing brace
ExtractJSON_FirstClose(s) ==
    LET Span(rest, end) == IF end = 0 THEN "" ELSE SubSeq(rest, 1, end)
        From(start) == IF start = 0 THEN "" ELSE Span(SubSeq(s, start, Len(s)), Index(SubSeq(s, start, Len(s)), "}"))
    IN From(Index(s, "{"))

ExtractJSON(s) ==
    LET Span(start, ends) == IF ends = {} THEN "" ELSE SubSeq(s, start, MinOf(ends))
        From(start) ==
            IF start = 0 THEN ""
            ELSE Span(start, {i \in start..Len(s) : CharAt(s, i) = "}" /\ DepthAfter(s, start, i) = 0})
    IN From(Index(s, "{"))

validEscapes == {"\"", "\\", "/", "n", "r", "t", "u"}

\* The loop of sanitizeJSON: inString before the character at i is the parity
\* of the quotes before i that are not preceded by a backslash; what the
\* loop writes for the character at i depends on nothing else.
sanitizeJSON(s) ==
    LET Toggles(i) == CharAt(s, i) = "\"" /\ (i = 1 \/ CharAt(s, i - 1) # "\\")
        toggles == {j \in 1..Len(s) : Toggles(j)}
        inString(i) == Cardinality({j \in toggles : j < i}) % 2 = 1
        Written(i) ==
            LET ch == CharAt(s, i)
            IN IF Toggles(i) THEN ch
               ELSE IF inString(i) /\ ch = "\\" /\ i + 1 <= Len(s) /\ CharAt(s, i + 1) \notin validEscapes
               THEN "\\\\"
               ELSE ch
    IN ConcatRange([i \in 1..Len(s) |-> Written(i)], 1, Len(s))

\* the text ParseResponse hands to the decoder
Candidate(raw) ==
    LET Chosen(trimmed, jsonStr) == IF jsonStr = "" THEN trimmed ELSE jsonStr
        Of(trimmed) == Chosen(trimmed, ExtractJSON(trimmed))
    IN Of(TrimSpace(raw))

\* the two decoding attempts of ParseResponse
DecodeWithRepair(jsonStr) ==
    LET Retry(first) == IF first.err = "" THEN first ELSE Unmarshal(sanitizeJSON(jsonStr))
    IN Retry(Unmarshal(jsonStr))

\* a normalisation that knows the text "null" only
NormalizeCommand_NullOnly(plan) ==
    IF plan.Command # <<>> /\ plan.Command[1] = "null" THEN [plan EXCEPT !.Command = <<>>] ELSE plan

NormalizeCommand(plan) ==
    LET Empty(text) == text = "null" \/ text = ""
    IN IF plan.Command # <<>> /\ Empty(TrimSpace(plan.Command[1]))
       THEN [plan EXCEPT !.Command = <<>>]
       ELSE plan

\* ParseResponse once jsonStr is chosen
ParseCandidate(jsonStr) ==
    LET Result(d) ==
            IF d.err # "" THEN [err |-> "JSON parse error", plan |-> ZeroPlan]
            ELSE [err |-> "", plan |-> NormalizeCommand(d.plan)]
    IN Result(DecodeWithRepair(jsonStr))

ParseResponse(raw) == ParseCandidate(Candidate(raw))

(***************************************************************************)
(* planner: sanitizeCommand and Plan, with the inference collaborator      *)
(***************************************************************************)
variants(workingDir) == <<
    workingDir \o "\\",
    workingDir \o "/",
    ReplaceAll(workingDir, "\\", "/") \o "/",
    ReplaceAll(workingDir, "/", "\\") \o "\\",
    ReplaceAll(ReplaceAll(workingDir, "\\", ""), "/", "") >>

\* the first loop of sanitizeCommand, from variant i on
RECURSIVE StripExact(_, _, _)
StripExact(result, vs, i) ==
    IF i > Len(vs) THEN result ELSE StripExact(ReplaceAll(result, vs[i], ""), vs, i + 1)

\* the second, case-insensitive loop: one occurrence per variant
RECURSIVE StripFold(_, _, _)
StripFold(result, vs, i) ==
    LET Cut(idx) ==
            IF idx # 0
            THEN StripFold(SubSeq(result, 1, idx - 1) \o SubSeq(result, idx + Len(vs[i]), Len(result)), vs, i + 1)
            ELSE StripFold(result, vs, i + 1)
    IN IF i > Len(vs) THEN result ELSE Cut(Index(ToLower(result), ToLower(vs[i])))

sanitizeCommand(command, workingDir) ==
    LET Strip(vs) == StripFold(StripExact(command, vs, 1), vs, 1)
    IN IF workingDir = "" THEN command ELSE Strip(variants(workingDir))

\* What the HTTP exchange with llama-server came to: reply.kind names the step
\* of InferWithHistory that failed, or "ok" with the content of the top choice.
ReplyKinds == {"not_running", "request_failed", "read_failed", "bad_status", "bad_body", "no_choices", "ok"}

InferWithHistory(reply) ==
    CASE reply.kind = "not_running" -> [err |-> "llama-server not running", text |-> ""]
      [] reply.kind = "request_failed" -> [err |-> "HTTP request failed", text |-> ""]
      [] reply.kind = "read_failed" -> [err |-> "failed to read response", text |-> ""]
      [] reply.kind = "bad_status" -> [err |-> "server error", text |-> ""]
      [] reply.kind = "bad_body" -> [err |-> "failed to parse response", text |-> ""]
      [] reply.kind = "no_choices" -> [err |-> "no response choices returned", text |-> ""]
      [] reply.kind = "ok" -> [err |-> "", text |-> TrimSpace(reply.content)]

\* MockLLM.Infer of the tests: Running is reply.kind = "ok", Response is reply.content
MockDefaultResponse ==
    "{\"command\": null, \"shell\": \"powershell\", \"response\": \"Hello!\", \"reasoning\": \"mock\", \"safe\": true}"

MockInfer(reply) ==
    IF reply.kind # "ok" THEN [err |-> "LLM not running", text |-> ""]
    ELSE [err |-> "", text |-> IF reply.content = "" THEN MockDefaultResponse ELSE reply.content]

\* the call of the type switch in Plan
Infer(backend, reply) == IF backend = "server" THEN InferWithHistory(reply) ELSE MockInfer(reply)

FallbackReasoning == "Could not parse structured output, returning as chat"

\* what Plan returns once the inference has returned rawResponse without error
PlanFromRaw(rawResponse, workingDir, defaultShell) ==
    LET Sanitized(plan) ==
            IF plan.Command # <<>>
            THEN [plan EXCEPT !.Command = <<sanitizeCommand(plan.Command[1], workingDir)>>]
            ELSE plan
        Parsed(parsed) ==
            IF parsed.err # ""
            THEN [ZeroPlan EXCEPT !.Response = rawResponse, !.Reasoning = FallbackReasoning]
            ELSE Sanitized(IF parsed.plan.Shell = "" THEN [parsed.plan EXCEPT !.Shell = defaultShell]
                           ELSE parsed.plan)
    IN Parsed(ParseResponse(rawResponse))

\* mutant of Plan: a parse failure is returned as an error
Plan_ParseErrorAborts(backend, reply, workingDir, defaultShell) ==
    LET Planned_(plan) ==
            IF plan.Reasoning = FallbackReasoning
            THEN [err |-> "LLM inference failed", hasPlan |-> FALSE, plan |-> ZeroPlan]
            ELSE [err |-> "", hasPlan |-> TRUE, plan |-> plan]
        Inferred(r) ==
            IF r.err # "" THEN [err |-> "LLM inference failed", hasPlan |-> FALSE, plan |-> ZeroPlan]
            ELSE Planned_(PlanFromRaw(r.text, workingDir, defaultShell))
    IN Inferred(Infer(backend, reply))

\* mutant of Plan: an inference error is turned into a chat-only plan
Plan_ErrorAsChat(backend, reply, workingDir, defaultShell) ==
    LET Inferred(r) ==
            IF r.err # ""
            THEN [err |-> "", hasPlan |-> TRUE, plan |-> [ZeroPlan EXCEPT !.Response = r.err]]
            ELSE [err |-> "", hasPlan |-> TRUE, plan |-> PlanFromRaw(r.text, workingDir, defaultShell)]
    IN Inferred(Infer(backend, reply))

\* planner.Plan; hasPlan is FALSE for the nil plan returned with an error
Plan(backend, reply, workingDir, defaultShell) ==
    LET Inferred(r) ==
            IF r.err # ""
            THEN [err |-> "LLM inference failed: " \o r.err, hasPlan |-> FALSE, plan |-> ZeroPlan]
            ELSE [err |-> "", hasPlan |-> TRUE, plan |-> PlanFromRaw(r.text, workingDir, defaultShell)]
    IN Inferred(Infer(backend, reply))

(***************************************************************************)
(* memory.Memory                                                           *)
(*                                                                         *)
(* An Exchange is [UserInput, Command, Result, Response]; its timestamp is *)
(* not modelled.  The Memory is the record mem; notes holds the exchanges  *)
(* written to the daily note, disk the saved memory.json (<<>>: no file).  *)
(***************************************************************************)
DefaultMaxExchanges == 5
DefaultCompactAfter == 20

NewMemory(cwd) ==
    [WorkingDir |-> cwd, LastAction |-> "", LastCreated |-> "", Exchanges |-> <<>>,
     MaxExchanges |-> DefaultMaxExchanges, CompactAfter |-> DefaultCompactAfter]

\* strings.Trim(s, cutset)
Trim(s, cutset) ==
    LET Kept(keep) == IF keep = {} THEN "" ELSE SubSeq(s, MinOf(keep), MaxOf(keep))
    IN Kept({i \in 1..Len(s) : ~Contains(cutset, CharAt(s, i))})

\* strings.Fields: the maximal runs of characters that are not white space
Fields(s) ==
    LET EndOf(i) == MinOf({j \in i..Len(s) : j = Len(s) \/ IsSpace(CharAt(s, j + 1))})
        Field(i) == SubSeq(s, i, EndOf(i))
        Split(starts) ==
            [n \in 1..Cardinality(starts) |->
                Field(CHOOSE i \in starts : Cardinality({k \in starts : k < i}) = n - 1)]
    IN Split({i \in 1..Len(s) : ~IsSpace(CharAt(s, i)) /\ (i = 1 \/ IsSpace(CharAt(s, i - 1)))})

ExtractNameFromCommand(cmd) ==
    LET Last(parts) == IF Len(parts) >= 2 THEN Trim(parts[Len(parts)], "'\"") ELSE ""
        Word(name, sp) == IF sp # {} THEN SubSeq(name, 1, MinOf(sp) - 1) ELSE name
        Named(name) == Word(name, {i \in 1..Len(name) : CharAt(name, i) \in {" ", "\t"}})
        Search(lower, idx) ==
            IF idx # 0 THEN Named(Trim(TrimSpace(SubSeq(cmd, idx + 5, Len(cmd))), "'\""))
            ELSE IF Contains(lower, "mkdir") THEN Last(Fields(cmd))
            ELSE ""
        Lowered(lower) == Search(lower, Index(lower, "-name"))
    IN Lowered(ToLower(cmd))

ExtractPathFromCommand(cmd) ==
    LET Last(parts) == IF Len(parts) >= 2 THEN Trim(parts[Len(parts)], "'\"") ELSE ""
    IN Last(Fields(cmd))

\* a compaction that hands one exchange less to the note
compact_SkipsOne(m) ==
    LET n == Len(m.Exchanges)
    IN IF n <= m.MaxExchanges THEN [mem |-> m, old |-> <<>>]
       ELSE [mem |-> [m EXCEPT !.Exchanges = SubSeq(m.Exchanges, n - m.MaxExchanges + 1, n)],
             old |-> SubSeq(m.Exchanges, 2, n - m.MaxExchanges)]

\* a compaction that keeps the oldest exchanges of the list
compact_KeepsOldest(m) ==
    LET n == Len(m.Exchanges)
    IN IF n <= m.MaxExchanges THEN [mem |-> m, old |-> <<>>]
       ELSE [mem |-> [m EXCEPT !.Exchanges = SubSeq(m.Exchanges, 1, m.MaxExchanges)],
             old |-> SubSeq(m.Exchanges, m.MaxExchanges + 1, n)]

\* compact: what stays in memory and what goes to the note
compact(m) ==
    LET n == Len(m.Exchanges)
    IN IF n <= m.MaxExchanges THEN [mem |-> m, old |-> <<>>]
       ELSE [mem |-> [m EXCEPT !.Exchanges = SubSeq(m.Exchanges, n - m.MaxExchanges + 1, n)],
             old |-> SubSeq(m.Exchanges, 1, n - m.MaxExchanges)]

\* a RecordExchange that forgets the hint on a command without an idiom
RecordExchange_ForgetsHint(m, userInput, command, result, response) ==
    LET ex == [UserInput |-> userInput, Command |-> command, Result |-> result, Response |-> response]
        Created(lower) ==
            IF command # "" /\ (Contains(lower, "new-item") \/ Contains(lower, "mkdir"))
            THEN ExtractNameFromCommand(command)
            ELSE IF command # "" /\ Contains(lower, "explorer") THEN ExtractPathFromCommand(command)
            ELSE ""
        Compacted(appended) ==
            IF Len(appended.Exchanges) > appended.CompactAfter THEN compact(appended)
            ELSE [mem |-> appended, old |-> <<>>]
    IN Compacted([m EXCEPT !.Exchanges = Append(@, ex), !.LastAction = response,
                           !.LastCreated = Created(ToLower(command))])

\* RecordExchange: the memory after the call and the exchanges handed to the note
RecordExchange(m, userInput, command, result, response) ==
    LET ex == [UserInput |-> userInput, Command |-> command, Result |-> result, Response |-> response]
        Created(lower) ==
            IF command # "" /\ (Contains(lower, "new-item") \/ Contains(lower, "mkdir"))
            THEN ExtractNameFromCommand(command)
            ELSE IF command # "" /\ Contains(lower, "explorer") THEN ExtractPathFromCommand(command)
            ELSE m.LastCreated
        Compacted(appended) ==
            IF Len(appended.Exchanges) > appended.CompactAfter THEN compact(appended)
            ELSE [mem |-> appended, old |-> <<>>]
    IN Compacted([m EXCEPT !.Exchanges = Append(@, ex), !.LastAction = response,
                           !.LastCreated = Created(ToLower(command))])

GetHistory(m) == m.Exchanges

Clear_ListOnly(m) == [m EXCEPT !.Exchanges = <<>>]

Clear(m) == [m EXCEPT !.Exchanges = <<>>, !.LastAction = "", !.LastCreated = ""]

\* the document Save writes: the fields of Memory that carry a json name
Saved(m) ==
    <<[WorkingDir |-> m.WorkingDir, LastAction |-> m.LastAction, LastCreated |-> m.LastCreated,
       Exchanges |-> m.Exchanges]>>

(***************************************************************************)
(* executor.Executor                                                       *)
(*                                                                         *)
(* Paths follow path/filepath on Windows, the system the program drives.   *)
(* A Result is [Success, Output, Error, NewWorkDir, CurrentWorkDir]; its   *)
(* Duration is not modelled.                                               *)
(***************************************************************************)
IsSep(c) == c \in {"\\", "/"}

\* the drive prefix of a path ("C:"), "" when it has none
VolumeName(path) ==
    IF Len(path) >= 2 /\ CharAt(path, 2) = ":" /\ Contains(LowerChars, LowerChar(CharAt(path, 1)))
    THEN SubSeq(path, 1, 2) ELSE ""

IsAbs(path) ==
    LET Rooted(vol) == vol # "" /\ Len(path) > Len(vol) /\ IsSep(CharAt(path, Len(vol) + 1))
    IN Rooted(VolumeName(path))

\* the elements of a path between separators, "" and "." dropped
PathElems(rest) ==
    LET EndOf(i) == MinOf({j \in i..Len(rest) : j = Len(rest) \/ IsSep(CharAt(rest, j + 1))})
        Elem(i) == SubSeq(rest, i, EndOf(i))
        Split(starts) ==
            [n \in 1..Cardinality(starts) |->
                Elem(CHOOSE i \in starts : Cardinality({k \in starts : k < i}) = n - 1)]
        Kept(all) == SelectSeq(all, LAMBDA e : e # ".")
    IN Kept(Split({i \in 1..Len(rest) : ~IsSep(CharAt(rest, i)) /\ (i = 1 \/ IsSep(CharAt(rest, i - 1)))}))

\* the elements left once every ".." has removed the element before it
RECURSIVE Resolve(_, _, _, _)
Resolve(elems, i, rooted, out) ==
    IF i > Len(elems) THEN out
    ELSE IF elems[i] # ".." THEN Resolve(elems, i + 1, rooted, Append(out, elems[i]))
    ELSE IF out # <<>> /\ out[Len(out)] # ".." THEN Resolve(elems, i + 1, rooted, SubSeq(out, 1, Len(out) - 1))
    ELSE IF rooted THEN Resolve(elems, i + 1, rooted, out)
    ELSE Resolve(elems, i + 1, rooted, Append(out, ".."))

RECURSIVE JoinElems(_, _)
JoinElems(elems, i) ==
    IF i > Len(elems) THEN ""
    ELSE IF i = Len(elems) THEN elems[i]
    ELSE elems[i] \o "\\" \o JoinElems(elems, i + 1)

\* filepath.Clean
Clean(path) ==
    LET Built(vol, rooted, body) ==
            IF rooted THEN vol \o "\\" \o body
            ELSE IF body = "" THEN vol \o "."
            ELSE vol \o body
        Rest(vol, rest, rooted) ==
            Built(vol, rooted, JoinElems(Resolve(PathElems(rest), 1, rooted, <<>>), 1))
        After(vol, rest) == Rest(vol, rest, rest # "" /\ IsSep(CharAt(rest, 1)))
        Vol(vol) == After(vol, SubSeq(path, Len(vol) + 1, Len(path)))
    IN Vol(VolumeName(path))

\* filepath.Join of two elements
Join(a, b) == Clean(IF a = "" THEN b ELSE IF b = "" THEN a ELSE a \o "\\" \o b)

cleanPathArg(arg) ==
    LET Unquoted(s) ==
            IF Len(s) >= 2 /\ ((CharAt(s, 1) = "'" /\ CharAt(s, Len(s)) = "'")
                               \/ (CharAt(s, 1) = "\"" /\ CharAt(s, Len(s)) = "\""))
            THEN SubSeq(s, 2, Len(s) - 1)
            ELSE s
    IN Unquoted(TrimSpace(arg))

\* a detection that does not know the alias sl
extractCDTarget_NoAlias(command) ==
    LET Found(arg) == [ok |-> TRUE, target |-> cleanPathArg(arg)]
        Match(cmd, lower) ==
            IF HasPrefix(lower, "cd ") THEN Found(SubSeq(cmd, 4, Len(cmd)))
            ELSE IF HasPrefix(lower, "set-location ") THEN Found(SubSeq(cmd, 14, Len(cmd)))
            ELSE [ok |-> FALSE, target |-> ""]
        Trimmed(cmd) == Match(cmd, ToLower(cmd))
    IN Trimmed(TrimSpace(command))

extractCDTarget(command) ==
    LET Found(arg) == [ok |-> TRUE, target |-> cleanPathArg(arg)]
        PathParam(rest, lowerRest) ==
            IF HasPrefix(lowerRest, "-path ") THEN TrimSpace(SubSeq(rest, 7, Len(rest))) ELSE rest
        Location(rest) == PathParam(rest, ToLower(rest))
        Arg(cmd, lower) ==
            IF HasPrefix(lower, "cd ") \/ HasPrefix(lower, "sl ") THEN SubSeq(cmd, 4, Len(cmd))
            ELSE Location(TrimSpace(SubSeq(cmd, 14, Len(cmd))))
        Match(cmd, lower) ==
            IF HasPrefix(lower, "cd ") \/ HasPrefix(lower, "set-location ") \/ HasPrefix(lower, "sl ")
            THEN Found(Arg(cmd, lower))
            ELSE [ok |-> FALSE, target |-> ""]
        Trimmed(cmd) == Match(cmd, ToLower(cmd))
    IN Trimmed(TrimSpace(command))

\* a cleaning that only turns \r\n into \n
cleanTerminalOutput_LineEndsOnly(text) == ReplaceAll(text, "\r\n", "\n")

\* cleanTerminalOutput: within a line only the text after the last \r stays
cleanTerminalOutput(text) ==
    LET Lines(s) ==
            ConcatRange([i \in 1..Len(s) |->
                            IF \E j \in i..Len(s) : CharAt(s, j) = "\r" /\ \A k \in i..j : CharAt(s, k) # "\n"
                            THEN "" ELSE CharAt(s, i)], 1, Len(s))
    IN Lines(ReplaceAll(text, "\r\n", "\n"))

\* os.Stat on a file system that ignores case: "dir", "file" or "none"
Stat(world, path) ==
    LET Named(lower) ==
            IF \E d \in world.dirs : ToLower(d) = lower THEN "dir"
            ELSE IF \E f \in world.files : ToLower(f) = lower THEN "file"
            ELSE "none"
    IN Named(ToLower(path))

ExecutorTimeout == "30s"

\* a Result that does not carry the directory
MakeResult_NoDir(success, output, error, newWorkDir, currentWorkDir) ==
    [Success |-> success, Output |-> output, Error |-> error,
     NewWorkDir |-> newWorkDir, CurrentWorkDir |-> ""]

MakeResult(success, output, error, newWorkDir, currentWorkDir) ==
    [Success |-> success, Output |-> output, Error |-> error,
     NewWorkDir |-> newWorkDir, CurrentWorkDir |-> currentWorkDir]

\* a change of directory that is stored without looking at the disk
handleCD_Unverified(workingDir, target, world) ==
    LET Entered(newDir) ==
            [WorkingDir |-> newDir, spawned |-> FALSE,
             result |-> MakeResult(TRUE, "Directory: " \o newDir, "", newDir, newDir)]
    IN Entered(Clean(IF IsAbs(target) THEN target ELSE Join(workingDir, target)))

\* handleCD: the executor's directory after the call and the Result
handleCD(workingDir, target, world) ==
    LET Entered(newDir, info) ==
            IF info = "none"
            THEN [WorkingDir |-> workingDir, spawned |-> FALSE,
                  result |-> MakeResult(FALSE, "", "Cannot navigate to '" \o target \o "': not found",
                                        "", workingDir)]
            ELSE IF info = "file"
            THEN [WorkingDir |-> workingDir, spawned |-> FALSE,
                  result |-> MakeResult(FALSE, "", "'" \o target \o "' is not a directory", "", workingDir)]
            ELSE [WorkingDir |-> newDir, spawned |-> FALSE,
                  result |-> MakeResult(TRUE, "Directory: " \o newDir, "", newDir, newDir)]
        Cleaned(newDir) == Entered(newDir, Stat(world, newDir))
    IN Cleaned(Clean(IF IsAbs(target) THEN target ELSE Join(workingDir, target)))

\* what the subprocess did: how it ended and what it wrote
Outcome(kind, stdout, stderr) == [kind |-> kind, stdout |-> stdout, stderr |-> stderr]

ErrorText(kind) ==
    IF kind = "exit1" THEN "exit status 1"
    ELSE IF kind = "exit2" THEN "exit status 2"
    ELSE "exec: executable file not found in %PATH%"

\* Execute: world is [dirs, files, cwd, getwd], outcome what the subprocess does
\* the Result of a subprocess that was still running at the deadline
TimeoutResult_AsSuccess(dir) == MakeResult(TRUE, "", "", "", dir)

TimeoutResult(dir) == MakeResult(FALSE, "", "Command timed out after " \o ExecutorTimeout, "", dir)

\* exit code 1 of a search command: nothing found
IsSearchMiss_AnyExit(kind, lowerCmd) ==
    /\ kind \in {"exit1", "exit2"}
    /\ (Contains(lowerCmd, "select-string") \/ Contains(lowerCmd, "grep") \/ Contains(lowerCmd, "findstr"))

IsSearchMiss(kind, lowerCmd) ==
    /\ kind = "exit1"
    /\ (Contains(lowerCmd, "select-string") \/ Contains(lowerCmd, "grep") \/ Contains(lowerCmd, "findstr"))

Execute(workingDir, command, shell, world, outcome) ==
    LET Ended(dir, errStr, output, lowerCmd) ==
            IF outcome.kind = "timeout" THEN TimeoutResult(dir)
            ELSE IF outcome.kind = "exit0"
            THEN MakeResult(TRUE, output, "", "", dir)
            ELSE IF IsSearchMiss(outcome.kind, lowerCmd)
            THEN MakeResult(FALSE, output, "No matches found", "", dir)
            ELSE MakeResult(FALSE, output, IF errStr = "" THEN ErrorText(outcome.kind) ELSE errStr, "", dir)
        Combined(stdout, errStr) ==
            IF errStr = "" THEN stdout
            ELSE IF stdout # "" THEN stdout \o "\n" \o errStr
            ELSE errStr
        Captured(dir, stdout, errStr) ==
            Ended(dir, errStr, cleanTerminalOutput(Combined(stdout, errStr)), ToLower(command))
        Spawned(dir) ==
            [WorkingDir |-> dir, spawned |-> TRUE,
             result |-> Captured(dir, TrimSpace(outcome.stdout), TrimSpace(outcome.stderr))]
        Validated(info) ==
            Spawned(IF info # "none" THEN workingDir ELSE IF world.getwd THEN world.cwd ELSE ".")
        Detected(cd) == IF cd.ok THEN handleCD(workingDir, cd.target, world) ELSE Validated(Stat(world, workingDir))
    IN Detected(extractCDTarget(command))

(***************************************************************************)
(* ui.Model: the session                                                   *)
(*                                                                         *)
(* Messages are kept as plain text: the styles lipgloss adds are dropped,  *)
(* and the window has its initial width, at which addMessage does not      *)
(* wrap.  A turn is [id, plan]: the plan a call of Plan returned, with the *)
(* number of the request it answers.                                       *)
(***************************************************************************)
\* the out field of a call that has not been made
NoResult == [none |-> TRUE]

ProcessDir == "C:\\proj"
DefaultShell == "powershell"

World == [dirs |-> {"C:\\", "C:\\proj", "C:\\proj\\sub", "C:\\proj\\skills"}, files |-> {"C:\\proj\\tmp.txt"},
          cwd |-> ProcessDir, getwd |-> TRUE]

Header == <<"Shell-E - Your local AI OS assistant",
            "Type natural language commands. I'll plan and execute them safely.",
            "Commands: /clear (reset chat) - /history (show history) - /exit (quit)",
            "">>

\* what the user may type before pressing Enter
Typed == {"clean up", " Y ", "yes", "no", "/clear", "/history", "/EXIT", "/help", "  "}

\* what the model server may answer
ModelReplies ==
    {[kind |-> "ok", content |-> c] : c \in {
        "{\"command\":\"dir\",\"shell\":\"cmd\",\"response\":\"Listing\",\"safe\":true}",
        "{\"command\":\"del tmp.txt\",\"response\":\"Deleting\",\"safe\":true}",
        "{\"command\":\"del tmp.txt\",\"response\":\"Deleting\",\"reasoning\":\"risky\",\"safe\":false}",
        "{\"command\":\"FORMAT C: /q\",\"response\":\"Formatting\",\"safe\":true}",
        "{\"command\":\"cd skills\",\"response\":\"Moving\",\"safe\":true}",
        "{\"command\":null,\"response\":\"Hello!\"}",
        "I cannot help with that."}}
    \cup {[kind |-> k, content |-> ""] : k \in {"not_running", "request_failed", "bad_status", "no_choices"}}

\* what the subprocess of a command may do
Outcomes == {Outcome("exit0", "tmp.txt\r\n", ""), Outcome("exit1", "", "Access is denied."),
             Outcome("timeout", "", "")}

NewTurn(input) == [input |-> input, stage |-> "planning", level |-> "", answer |-> <<>>]

InitSession ==
    /\ processing = FALSE
    /\ status = "Ready"
    /\ pendingConfirm = <<>>
    /\ messages = Header
    /\ quit = FALSE
    /\ inferring = {}
    /\ inferDone = {}
    /\ executing = {}
    /\ execDone = {}
    /\ mem = NewMemory(ProcessDir)
    /\ disk = <<>>
    /\ notes = <<>>
    /\ executorDir = mem.WorkingDir
    /\ nextId = 1
    /\ entered = 0
    /\ turns = <<>>
    /\ execCalls = {}
    /\ decisions = {}

\* getLastUserInput: the newest message that holds "You: ", cut after its first "You: "
getLastUserInput(msgs) ==
    LET hits == {i \in 1..Len(msgs) : Contains(msgs[i], "You: ")}
        last == msgs[MaxOf(hits)]
    IN IF hits = {} THEN ""
       ELSE TrimSpace(SubSeq(last, Index(last, "You: ") + 5, Len(last)))

\* the calls a handler makes on the memory: RecordExchange, then Save
RecordAndSave(m, userInput, command, result, response, workDir) ==
    LET r == RecordExchange(m, userInput, command, result, response)
        synced == IF workDir # "" /\ workDir # r.mem.WorkingDir
                  THEN [r.mem EXCEPT !.WorkingDir = workDir] ELSE r.mem
    IN /\ mem' = synced
       /\ notes' = notes \o r.old
       /\ disk' = Saved(synced)

\* the test handleConfirmation makes on the answer
Confirmed_NotNo(input) == ToLower(TrimSpace(input)) \notin {"n", "no"}

Confirmed(input) == ToLower(TrimSpace(input)) \in {"y", "yes"}

handleConfirmation(input) ==
    LET turn == pendingConfirm[1]
    IN /\ pendingConfirm' = <<>>
       /\ IF Confirmed(input)
          THEN /\ messages' = Append(messages, "Confirmed - executing...")
               /\ status' = "Executing..."
               /\ executing' = executing \cup {turn}
               /\ turns' = [turns EXCEPT ![turn.id].answer = <<input>>, ![turn.id].stage = "confirmed"]
               /\ UNCHANGED processing
          ELSE /\ messages' = Append(messages, "Cancelled")
               /\ status' = "Ready"
               /\ processing' = FALSE
               /\ turns' = [turns EXCEPT ![turn.id].answer = <<input>>, ![turn.id].stage = "cancelled"]
               /\ UNCHANGED executing
       /\ UNCHANGED <<quit, inferring, mem, disk, notes, nextId>>

HistoryLine(ex) == "  [time] " \o ex.UserInput \o " -> " \o ex.Response

\* tea.Quit: Run returns and main saves the memory
Quit ==
    /\ quit' = TRUE
    /\ disk' = Saved(mem)

handleSlashCommand(input) ==
    /\ IF ToLower(input) = "/clear"
       THEN /\ messages' = Append(SubSeq(messages, 1, 4), "Chat cleared")
            /\ mem' = Clear(mem)
            /\ UNCHANGED <<quit, disk>>
       ELSE IF ToLower(input) = "/history"
       THEN /\ messages' = IF GetHistory(mem) = <<>> THEN Append(messages, "No history yet")
                           ELSE Append(messages, "History:")
                                \o [i \in 1..Len(GetHistory(mem)) |-> HistoryLine(GetHistory(mem)[i])]
            /\ UNCHANGED <<mem, quit, disk>>
       ELSE IF ToLower(input) = "/exit"
       THEN /\ Quit
            /\ UNCHANGED <<messages, mem>>
       ELSE /\ messages' = Append(messages, "Unknown command: " \o input)
            /\ UNCHANGED <<mem, quit, disk>>
    /\ UNCHANGED <<processing, status, pendingConfirm, inferring, executing, notes,
                   nextId, turns>>

\* Update for Enter: typed is the content of the text area
KeyEnter(typed) ==
    LET input == TrimSpace(typed)
    IN /\ ~quit /\ ~processing /\ input # ""
       /\ entered < MaxInputs
       /\ entered' = entered + 1
       /\ IF pendingConfirm # <<>> THEN handleConfirmation(input)
          ELSE IF HasPrefix(input, "/") THEN handleSlashCommand(input)
          ELSE /\ nextId <= MaxTurns
               /\ messages' = Append(messages, "You: " \o input)
               /\ status' = "Thinking..."
               /\ processing' = TRUE
               /\ inferring' = inferring \cup {[id |-> nextId, input |-> input]}
               /\ nextId' = nextId + 1
               /\ turns' = Append(turns, NewTurn(input))
               /\ UNCHANGED <<pendingConfirm, quit, executing, mem, disk, notes>>
       /\ UNCHANGED <<probe, inferDone, execDone, executorDir, execCalls, decisions>>

\* Update for Ctrl+C
KeyCtrlC ==
    /\ ~quit
    /\ Quit
    /\ UNCHANGED <<probe, processing, status, pendingConfirm, messages, inferring, inferDone,
                   executing, execDone, mem, notes, executorDir, nextId, entered, turns,
                   execCalls, decisions>>

\* what Plan returns in the session, for each answer of the server and each directory
\* the memory can name
Planned ==
    [reply \in ModelReplies, dir \in World.dirs |-> Plan("server", reply, dir, DefaultShell)]

\* the command returned by runInference: Plan, then the message for Update
RunInference(c, reply) ==
    /\ ~quit
    /\ c \in inferring
    /\ inferring' = inferring \ {c}
    /\ inferDone' = inferDone \cup {[id |-> c.id, reply |-> reply,
                                     out |-> Planned[reply, mem.WorkingDir]]}
    /\ UNCHANGED <<probe, processing, status, pendingConfirm, messages, quit, executing, execDone,
                   mem, disk, notes, executorDir, nextId, entered, turns, execCalls, decisions>>

\* the assessment handlePlan acts on
Assess_TrustSafe(plan) ==
    IF plan.Safe THEN [Level |-> "Safe", Reason |-> "", Command |-> plan.Command[1]]
    ELSE Check(plan.Command[1])

Assess(plan) == Check(plan.Command[1])

\* the branch handlePlan takes for a level: "refuse", "confirm" or "execute"
Route_BlockedAsks(level) == IF level \in {"Blocked", "NeedsConfirm"} THEN "confirm" ELSE "execute"

Route(level) ==
    IF level = "Blocked" THEN "refuse"
    ELSE IF level = "NeedsConfirm" THEN "confirm"
    ELSE "execute"

handlePlan(turn) ==
    LET plan == turn.plan
        cmd == plan.Command[1]
        shown == messages \o <<"Shell-E: " \o plan.Response, "  -> " \o cmd>>
        assessment == Assess(plan)
    IN IF plan.Command = <<>> \/ plan.Command[1] = ""
       THEN /\ messages' = Append(messages, "Shell-E: " \o plan.Response)
            /\ RecordAndSave(mem, getLastUserInput(messages'), "", "", plan.Response, "")
            /\ status' = "Ready"
            /\ processing' = FALSE
            /\ turns' = [turns EXCEPT ![turn.id].stage = "chat"]
            /\ UNCHANGED <<pendingConfirm, executing, decisions>>
       ELSE /\ decisions' = decisions \cup {[id |-> turn.id, plan |-> plan,
                                             level |-> assessment.Level,
                                             reason |-> assessment.Reason,
                                             route |-> Route(assessment.Level)]}
            /\ turns' = [turns EXCEPT ![turn.id].stage = Route(assessment.Level),
                                      ![turn.id].level = assessment.Level]
            /\ IF Route(assessment.Level) = "refuse"
               THEN /\ messages' = Append(shown, assessment.Reason)
                    /\ RecordAndSave(mem, getLastUserInput(messages'), cmd, "BLOCKED",
                                     assessment.Reason, "")
                    /\ status' = "Ready"
                    /\ processing' = FALSE
                    /\ UNCHANGED <<pendingConfirm, executing>>
               ELSE IF Route(assessment.Level) = "confirm"
               THEN /\ messages' = Append(shown, assessment.Reason)
                    /\ pendingConfirm' = <<turn>>
                    /\ status' = "Awaiting confirmation..."
                    /\ processing' = FALSE
                    /\ UNCHANGED <<executing, mem, disk, notes>>
               ELSE /\ messages' = shown
                    /\ status' = "Executing..."
                    /\ executing' = executing \cup {turn}
                    /\ UNCHANGED <<processing, pendingConfirm, mem, disk, notes>>

\* Update for inferDoneMsg
InferDone(msg) ==
    /\ ~quit
    /\ msg \in inferDone
    /\ inferDone' = inferDone \ {msg}
    /\ IF msg.out.err # ""
       THEN /\ messages' = Append(messages, "Error: " \o msg.out.err)
            /\ status' = "Ready"
            /\ processing' = FALSE
            /\ turns' = [turns EXCEPT ![msg.id].stage = "failed"]
            /\ UNCHANGED <<pendingConfirm, executing, mem, disk, notes, decisions>>
       ELSE handlePlan([id |-> msg.id, plan |-> msg.out.plan])
    /\ UNCHANGED <<probe, quit, inferring, execDone, executorDir, nextId, entered, execCalls>>

\* the command returned by runExecution: Execute, then the message for Update
RunExecution(turn, outcome) ==
    LET cmd == IF turn.plan.Command # <<>> THEN turn.plan.Command[1] ELSE ""
        shell == IF turn.plan.Shell # "" THEN turn.plan.Shell ELSE "powershell"
        done == Execute(executorDir, cmd, shell, World, outcome)
    IN /\ ~quit
       /\ turn \in executing
       /\ executing' = executing \ {turn}
       /\ executorDir' = done.WorkingDir
       /\ execCalls' = execCalls \cup {[id |-> turn.id, command |-> cmd, shell |-> shell]}
       /\ execDone' = execDone \cup {[id |-> turn.id, plan |-> turn.plan, result |-> done.result]}
       /\ UNCHANGED <<probe, processing, status, pendingConfirm, messages, quit, inferring,
                      inferDone, mem, disk, notes, nextId, entered, turns, decisions>>

\* the text handleExecResult shows for a Result
Shown(result) ==
    IF result.Success
    THEN (IF result.Output # "" THEN <<result.Output>> ELSE <<>>) \o <<"  Done">>
    ELSE <<"  Failed: " \o (IF result.Output # "" THEN result.Output \o "\n" \o result.Error
                                                  ELSE result.Error)>>

\* a handler of execDoneMsg that leaves the front end busy
ExecDone_StaysBusy(msg) ==
    LET cmd == IF msg.plan.Command # <<>> THEN msg.plan.Command[1] ELSE ""
        shown == messages \o Shown(msg.result)
    IN /\ ~quit
       /\ msg \in execDone
       /\ execDone' = execDone \ {msg}
       /\ RecordAndSave(mem, getLastUserInput(shown), cmd, msg.result.Output, msg.plan.Response,
                        msg.result.CurrentWorkDir)
       /\ status' = "Ready"
       /\ messages' = Append(shown, "")
       /\ turns' = [turns EXCEPT ![msg.id].stage = "done"]
       /\ UNCHANGED <<probe, processing, pendingConfirm, quit, inferring, inferDone, executing,
                      executorDir, nextId, entered, execCalls, decisions>>

\* Update for execDoneMsg: handleExecResult
ExecDone(msg) ==
    LET cmd == IF msg.plan.Command # <<>> THEN msg.plan.Command[1] ELSE ""
        shown == messages \o Shown(msg.result)
    IN /\ ~quit
       /\ msg \in execDone
       /\ execDone' = execDone \ {msg}
       /\ RecordAndSave(mem, getLastUserInput(shown), cmd, msg.result.Output, msg.plan.Response,
                        msg.result.CurrentWorkDir)
       /\ status' = "Ready"
       /\ processing' = FALSE
       /\ messages' = Append(shown, "")
       /\ turns' = [turns EXCEPT ![msg.id].stage = "done"]
       /\ UNCHANGED <<probe, pendingConfirm, quit, inferring, inferDone, executing, executorDir,
                      nextId, entered, execCalls, decisions>>

Init ==
    /\ probe = [op |-> "none", in |-> "", done |-> TRUE, out |-> NoResult]
    /\ InitSession

Next ==
    \/ \E typed \in Typed : KeyEnter(typed)
    \/ KeyCtrlC
    \/ \E c \in inferring, reply \in ModelReplies : RunInference(c, reply)
    \/ \E msg \in inferDone : InferDone(msg)
    \/ \E turn \in executing, outcome \in Outcomes : RunExecution(turn, outcome)
    \/ \E msg \in execDone : ExecDone(msg)

Spec == Init /\ [][Next]_vars

\* the turns for which Execute has been called or is about to be
Executed == {c.id : c \in execCalls}
Scheduled == {t.id : t \in executing}
Pending == IF pendingConfirm = <<>> THEN {} ELSE {pendingConfirm[1].id}

\* the level Check gives the command of a plan
LevelOf(plan) == IF plan.Command = <<>> THEN "none" ELSE Check(plan.Command[1]).Level

\* C1: a command that Check classifies as Blocked is never passed to Execute,
\* is never scheduled for execution and never becomes the pending confirmation,
\* whatever the user types and whatever the model answers.
C1_BlockedNeverRuns ==
    /\ \A c \in execCalls : Check(c.command).Level # "Blocked"
    /\ \A t \in executing : LevelOf(t.plan) # "Blocked"
    /\ pendingConfirm # <<>> => LevelOf(pendingConfirm[1].plan) # "Blocked"

\* a Blocked plan has been refused and the user has typed a yes after it
C1_Witness ==
    \E d \in decisions :
        /\ LevelOf(d.plan) = "Blocked"
        /\ \E j \in DOMAIN turns : j > d.id /\ ToLower(turns[j].input) = "y"

\* the affirmative answers
IsYes(input) == \E w \in {"y", "yes"} : ToLower(TrimSpace(input)) = w

\* C2: Execute is called for a NeedsConfirm plan only if the input submitted
\* next after it became pending is y or yes (trimmed, any case); after any
\* other next input the plan is no longer pending and is never executed.
C2_ConfirmOnlyOnYes ==
    /\ \A d \in decisions :
          (LevelOf(d.plan) = "NeedsConfirm" /\ d.id \in Executed \cup Scheduled)
              => (turns[d.id].answer # <<>> /\ IsYes(turns[d.id].answer[1]))
    /\ \A i \in DOMAIN turns :
          (turns[i].answer # <<>> /\ ~IsYes(turns[i].answer[1]))
              => i \notin Executed \cup Scheduled \cup Pending

\* a NeedsConfirm plan has been passed to Execute after the answer " Y "
C2_Witness ==
    \E d \in decisions :
        /\ LevelOf(d.plan) = "NeedsConfirm"
        /\ d.id \in Executed
        /\ turns[d.id].answer = <<"Y">>

\* C6: two plans with the same command text get the same decision (execute,
\* confirm or refuse) whatever their safe flags and reasoning are.
C6_SafeFlagIgnored ==
    \A d1, d2 \in decisions : d1.plan.Command = d2.plan.Command => d1.route = d2.route

\* two plans with the same command, one marked safe and one not, have been decided
C6_Witness ==
    \E d1, d2 \in decisions :
        /\ d1.plan.Command = d2.plan.Command
        /\ d1.plan.Safe /\ ~d2.plan.Safe
        /\ d1.plan.Reasoning # d2.plan.Reasoning

\* the turns whose inference failed
Failed == {i \in DOMAIN turns : turns[i].stage = "failed"}

\* Plan's answer to a failed inference is an error and no plan, and a turn it
\* aborted is never assessed, scheduled, executed or made pending
C10_NoPlan ==
    /\ \A m \in inferDone : m.reply.kind # "ok" => (m.out.err # "" /\ ~m.out.hasPlan)
    /\ \A i \in Failed :
          /\ i \notin Executed \cup Scheduled \cup Pending
          /\ \A d \in decisions : d.id # i

\* the step that delivers a failed inference leaves the memory, its file, the
\* executor and the pending plan alone and returns the front end to Ready
C10_AbortStep ==
    \A m \in inferDone :
        (m.reply.kind # "ok" /\ m \notin inferDone')
            => /\ mem' = mem /\ disk' = disk /\ notes' = notes
               /\ executorDir' = executorDir
               /\ execCalls' = execCalls /\ executing' = executing
               /\ decisions' = decisions
               /\ pendingConfirm' = pendingConfirm
               /\ status' = "Ready" /\ processing' = FALSE
               /\ turns'[m.id].stage = "failed"

\* C10: when the inference collaborator fails, Plan returns an error and no
\* plan, and the turn is aborted: no safety check, no Execute call and no
\* RecordExchange, the memory unchanged, the front end back to Ready.
C10_InferenceFailureAborts == []C10_NoPlan /\ [][C10_AbortStep]_vars

\* a turn has been aborted by a failed inference and the front end is Ready again
C10_Witness ==
    /\ Failed # {}
    /\ status = "Ready" /\ ~processing
    /\ mem = NewMemory(ProcessDir) /\ disk = <<>>

(***************************************************************************)
(* Inputs of the pure-function specifications                              *)
(***************************************************************************)
CheckFrags == {"format c:", "FORMAT-VOLUME ", "rd /s /q C:\\", "del ", "DEL ", "kill",
               "Remove-Item", "Shutdown", "gci | ", "x", " "}

RECURSIVE Concats(_, _)
Concats(frags, n) ==
    IF n = 0 THEN {""}
    ELSE LET shorter == Concats(frags, n - 1)
         IN shorter \cup {s \o f : s \in shorter, f \in frags}

CheckInputs == Concats(CheckFrags, MaxFrags)

PlanFrags == {"dir", "echo ", "{", "}", "\"", "\\", "null", " ", "a<b", "\n", "hi"}

PlanTexts == Concats(PlanFrags, MaxPlanFrags)

\* valid plans: the command is nil or not empty, the shell one of the two kinds
PlanInputs ==
    {[Command |-> c, Shell |-> sh, Response |-> "ok", Reasoning |-> "list", Safe |-> sf] :
        c \in {<<>>} \cup {<<t>> : t \in PlanTexts \ {""}}, sh \in {"powershell", "cmd"}, sf \in BOOLEAN}
    \cup {[Command |-> <<"dir">>, Shell |-> "powershell", Response |-> t, Reasoning |-> r, Safe |-> TRUE] :
        t \in PlanTexts, r \in {"", "x}"}}

RawFrags == {"{\"command\":\"dir\"}",
             "{\"command\":\"echo {hi}\",\"response\":\"ok\"}",
             "{\"command\": \"cd C:\\Files\", \"safe\": true}",
             "~~~json\n", "\n~~~", "Here is the command: ", "I'm sorry, I can't do that.",
             "{", "}", " "}

\* outputs that set the command or the shell of the plan to the values the
\* planner treats specially: no command, a command naming the working
\* directory, a shell that is absent, known or unknown
PlanRaws ==
    {"{\"command\": \"" \o t \o "\", \"response\": \"Hello!\"}" :
        t \in {"null", "", " ", "\\t ", " null\\n", "NULL", "nul", "null.",
               "C:\\\\proj\\\\", "c:/PROJ/", "dir C:\\\\proj\\\\sub", "C:proj",
               "copy C:\\\\proj\\\\a.txt C:\\\\proj\\\\b.txt", "type C:/proj/a.txt",
               "copy c:\\\\PROJ\\\\a.txt c:\\\\PROJ\\\\b.txt",
               "copy c:/PROJ/a.txt c:/PROJ/b.txt"}}
    \cup {"{\"command\": null, \"response\": \"Hello!\"}", "{\"response\": \"Hello!\"}"}
    \cup {"{\"command\": \"dir\", \"shell\": \"" \o sh \o "\"}" : sh \in {"", "cmd", "powershell", "bash", "CMD"}}

RawInputs == Concats(RawFrags, MaxRawFrags) \cup PlanRaws

Replies == {[kind |-> "ok", content |-> r] : r \in RawInputs}
           \cup {[kind |-> k, content |-> ""] : k \in ReplyKinds \ {"ok"}}

\* what a model writes inside a JSON string: an escaped backslash, a
\* backslash before a letter that is no escape letter, escapes of JSON, text
EscFrags == {"\\\\", "\\F", "\\n", "\\\"", "\\u0041", "C:", "x", " "}

\* outputs that are a plan but for the escapes in the response
RepairInputs ==
    {[body |-> t, raw |-> "{\"command\":\"dir\",\"response\":\"" \o t \o "\"}"] :
        t \in Concats(EscFrags, MaxEscFrags)}

\* commands a model may propose, with the working directories Plan may be
\* given: a drive root, a project directory, a system directory
SanitizeInputs ==
    {[command |-> c, dir |-> d] :
        c \in {"format C: /q", "rd /s /q C:\\Windows", "del /s /q C:\\proj\\", "del /s /q C:\\",
               "Remove-Item -Recurse C:\\Windows\\Temp", "Remove-Item -Recurse c:/windows",
               "dir C:\\proj\\sub", "del tmp.txt", "rm -rf /", "type C:\\proj\\a.txt"},
        d \in {"C:\\", "C:\\proj", "C:\\Windows", "c:\\windows\\"}}

ProbeDir == "C:\\proj"
ProbeShell == "powershell"

(***************************************************************************)
(* Specification of Check as a pure function                               *)
(***************************************************************************)
InitCheck ==
    /\ probe \in {[op |-> "Check", in |-> c, done |-> FALSE, out |-> NoResult] : c \in CheckInputs}
    /\ InitSession

CallCheck ==
    /\ probe.op = "Check"
    /\ ~probe.done
    /\ probe' = [probe EXCEPT !.done = TRUE, !.out = Check(probe.in)]
    /\ UNCHANGED session

NextCheck == CallCheck

SpecCheck == InitCheck /\ [][NextCheck]_vars

\* a pattern of the table occurs in the command as given, whatever its letter case
OccursIgnoringCase(command, pat) ==
    \E i \in 1..(Len(command) - Len(pat) + 1) : ToLower(SubSeq(command, i, i + Len(pat) - 1)) = pat

OccursIn(table, command) == {i \in 1..Len(table) : OccursIgnoringCase(command, table[i].match)}

CheckDone == probe.op = "Check" /\ probe.done

\* C3: every command containing a blocked-rule substring, in any letter case,
\* is classified Blocked, also when a confirm-rule substring occurs in it.
C3_BlockedWins ==
    (CheckDone /\ OccursIn(blockedPatterns, probe.in) # {}) => probe.out.Level = "Blocked"

C3_Witness ==
    /\ CheckDone
    /\ OccursIn(blockedPatterns, probe.in) # {}
    /\ OccursIn(confirmPatterns, probe.in) # {}
    /\ probe.in # ToLower(probe.in)
    /\ probe.out.Level = "Blocked"

\* C4: a command that, trimmed and lower-cased, contains no blocked and no
\* confirm substring is classified Safe with an empty reason; so is "".
C4_NoRuleSafe ==
    LET lower == ToLower(TrimSpace(probe.in))
    IN (CheckDone /\ OccursIn(blockedPatterns, lower) = {} /\ OccursIn(confirmPatterns, lower) = {})
       => (probe.out.Level = "Safe" /\ probe.out.Reason = "" /\ probe.out.Command = probe.in)

C4_EmptySafe == (CheckDone /\ probe.in = "") => (probe.out.Level = "Safe" /\ probe.out.Reason = "")

C4_Safe == C4_NoRuleSafe /\ C4_EmptySafe

C4_Witness ==
    /\ CheckDone
    /\ probe.in # ""
    /\ OccursIn(confirmPatterns, probe.in) # {}
    /\ OccursIn(confirmPatterns, ToLower(TrimSpace(probe.in))) = {}
    /\ probe.out.Level = "Safe"

\* C5 (as claimed): every command that contains no blocked-rule substring and
\* at least one confirm-rule substring is classified NeedsConfirm, with the
\* reason of the first confirm rule, in table order, that occurs in it.
C5_ConfirmAsClaimed ==
    (CheckDone /\ OccursIn(blockedPatterns, probe.in) = {} /\ OccursIn(confirmPatterns, probe.in) # {})
    => LET first == CHOOSE i \in OccursIn(confirmPatterns, probe.in) :
                        \A j \in OccursIn(confirmPatterns, probe.in) : i <= j
       IN /\ probe.out.Level = "NeedsConfirm"
          /\ probe.out.Reason = ConfirmReason(confirmPatterns[first])
(***************************************************************************)
(* Specification of the parser and of Plan as pure functions               *)
(***************************************************************************)
InitParse ==
    /\ probe \in {[op |-> "Parse", in |-> r, done |-> FALSE, out |-> NoResult] : r \in RawInputs}
          \cup {[op |-> "RoundTrip", in |-> p, done |-> FALSE, out |-> NoResult] : p \in PlanInputs}
          \cup {[op |-> "Plan", in |-> [backend |-> b, reply |-> r], done |-> FALSE, out |-> NoResult] :
                    b \in {"server", "mock"}, r \in Replies}
          \cup {[op |-> "Repair", in |-> c, done |-> FALSE, out |-> NoResult] : c \in RepairInputs}
          \cup {[op |-> "Sanitize", in |-> c, done |-> FALSE, out |-> NoResult] : c \in SanitizeInputs}
    /\ InitSession

CallParse ==
    /\ probe.op = "Parse"
    /\ ~probe.done
    /\ probe' = [probe EXCEPT !.done = TRUE,
                              !.out = [candidate |-> Candidate(probe.in), result |-> ParseResponse(probe.in)]]
    /\ UNCHANGED session

CallRoundTrip ==
    /\ probe.op = "RoundTrip"
    /\ ~probe.done
    /\ probe' = [probe EXCEPT !.done = TRUE, !.out = ParseResponse(Marshal(probe.in))]
    /\ UNCHANGED session

CallPlan ==
    /\ probe.op = "Plan"
    /\ ~probe.done
    /\ probe' = [probe EXCEPT !.done = TRUE,
                              !.out = Plan(probe.in.backend, probe.in.reply, ProbeDir, ProbeShell)]
    /\ UNCHANGED session

\* ParseResponse on an output whose first decode may fail, with the text the
\* repair pass makes of it
CallRepair ==
    /\ probe.op = "Repair"
    /\ ~probe.done
    /\ probe' = [probe EXCEPT !.done = TRUE,
                              !.out = [candidate |-> Candidate(probe.in.raw),
                                       repaired |-> sanitizeJSON(Candidate(probe.in.raw)),
                                       result |-> ParseResponse(probe.in.raw)]]
    /\ UNCHANGED session

\* Plan in a given working directory, the server answering with a plan
\* that proposes the command
CallSanitize ==
    LET Answer(c) ==
            [kind |-> "ok",
             content |-> Marshal([Command |-> <<c>>, Shell |-> "powershell", Response |-> "ok",
                                  Reasoning |-> "", Safe |-> TRUE])]
    IN /\ probe.op = "Sanitize"
       /\ ~probe.done
       /\ probe' = [probe EXCEPT !.done = TRUE,
                                 !.out = Plan("server", Answer(probe.in.command), probe.in.dir, ProbeShell)]
       /\ UNCHANGED session

NextParse == CallParse \/ CallRoundTrip \/ CallPlan \/ CallRepair \/ CallSanitize

SpecParse == InitParse /\ [][NextParse]_vars

\* C7 (as claimed): parsing the JSON serialization of any valid plan succeeds
\* and gives back the same command, shell, response, reasoning and safe flag.
C7_RoundTripAsClaimed ==
    (probe.op = "RoundTrip" /\ probe.done) => (probe.out.err = "" /\ probe.out.plan = probe.in)

\* the number of opening minus closing braces among the first k characters
SpanDepth(t, k) ==
    Cardinality({i \in 1..k : CharAt(t, i) = "{"}) - Cardinality({i \in 1..k : CharAt(t, i) = "}"})

IsBalanced(t) ==
    /\ Len(t) >= 2
    /\ CharAt(t, 1) = "{"
    /\ CharAt(t, Len(t)) = "}"
    /\ SpanDepth(t, Len(t)) = 0
    /\ \A k \in 1..(Len(t) - 1) : SpanDepth(t, k) > 0

Braces(t) == {i \in 1..Len(t) : CharAt(t, i) \in {"{", "}"}}

\* the text from the first to the last brace
Wrapped(t) == IF Braces(t) = {} THEN "" ELSE SubSeq(t, MinOf(Braces(t)), MaxOf(Braces(t)))

\* prose without braces around exactly one balanced span
HasOneSpan(t) == IsBalanced(Wrapped(t))

NoBalancedSpan(t) == \A i, j \in Braces(t) : i < j => ~IsBalanced(SubSeq(t, i, j))

ParseDone == probe.op = "Parse" /\ probe.done

PlanDone == probe.op = "Plan" /\ probe.done

\* the text the inference collaborator returned to Plan
Returned == Infer(probe.in.backend, probe.in.reply)

Undecodable(text) ==
    LET c == Candidate(text)
    IN Unmarshal(c).err # "" /\ Unmarshal(sanitizeJSON(c)).err # ""

\* C9: when the text returned by the inference cannot be decoded, even after
\* the repair pass, Plan returns no error and a plan with a nil command whose
\* response is that text, unchanged.
C9_ChatFallback ==
    (PlanDone /\ Returned.err = "" /\ Undecodable(Returned.text))
    => /\ probe.out.err = ""
       /\ probe.out.hasPlan
       /\ probe.out.plan.Command = <<>>
       /\ probe.out.plan.Response = Returned.text

C9_Witness ==
    /\ PlanDone
    /\ Returned.err = ""
    /\ Undecodable(Returned.text)
    /\ Returned.text # TrimSpace(Returned.text)
    /\ Braces(Returned.text) # {}
    /\ probe.out.plan.Response = Returned.text

\* what json.Unmarshal stored in the plan before the command was normalised
Decoded == DecodeWithRepair(probe.out.candidate)

NoCommandText(text) == text = "null" \/ TrimSpace(text) = ""

\* C11: when the decoded command is the string "null", the empty string or
\* a string of white space only, ParseResponse returns a nil command; a JSON
\* null command stays nil; in both cases the decoded response text is kept.
C11_NullCommandNormalized ==
    LET Normalized(d) ==
            (d.err = "" /\ (d.plan.Command = <<>> \/ NoCommandText(d.plan.Command[1])))
            => /\ probe.out.result.err = ""
               /\ probe.out.result.plan.Command = <<>>
               /\ probe.out.result.plan.Response = d.plan.Response
    IN ParseDone => Normalized(Decoded)

C11_WitnessOf(d) ==
    /\ d.err = ""
    /\ d.plan.Command = <<"\t ">>
    /\ d.plan.Response = "Hello!"
    /\ probe.out.result.plan.Command = <<>>
    /\ probe.out.result.plan.Response = "Hello!"

C11_Witness == ParseDone /\ C11_WitnessOf(Decoded)

\* C12 (as claimed): the command of every plan Plan returns is nil or a
\* string that is not empty after the working directory has been stripped.
C12_CommandNotEmptyAsClaimed ==
    (PlanDone /\ probe.out.hasPlan) => (probe.out.plan.Command = <<>> \/ probe.out.plan.Command[1] # "")

\* C13 (as claimed): the shell of every plan Plan returns without error,
\* the chat-fallback plan included, is "powershell" or "cmd".
C13_ShellEnumeratedAsClaimed ==
    (PlanDone /\ probe.out.err = "" /\ probe.out.hasPlan) => probe.out.plan.Shell \in {"powershell", "cmd"}

(***************************************************************************)
(* Specification of the executor: a sequence of Execute calls              *)
(*                                                                         *)
(* probe holds the Executor (WorkingDir), the file system it looks at      *)
(* (world), the directory the last successful cd set (cd, "" when none)    *)
(* and the last call: its arguments, the stored directory before it and    *)
(* whether that existed, whether a subprocess was started, where it ran    *)
(* and how it ended, and the Result returned.                              *)
(***************************************************************************)
MaxCalls == 2

\* the calls made: a command and the shell it is meant for
ExecCommands ==
    {[command |-> c, shell |-> "powershell"] :
        c \in {"cd sub", "CD ..", " cd  \"SUB\" ", "cd tmp.txt", "cd nowhere", "cd C:\\gone",
               "Set-Location -Path 'C:\\proj\\sub'", "set-location ..\\proj\\.\\sub", "sl C:/proj/sub/",
               "cd..", "Get-ChildItem | Select-String x", "GREP -r x ."}}
    \cup {[command |-> c, shell |-> "cmd"] : c \in {"dir", "echo apple | findstr orange"}}

\* what a subprocess may do; a call that starts none has the outcome "none"
ExecOutcomes ==
    {Outcome("exit0", "tmp.txt\r\n", ""), Outcome("exit0", "", "hello stderr"),
     Outcome("exit1", "", ""), Outcome("exit1", "out", " Access is denied.\r\n"),
     Outcome("exit2", "", ""), Outcome("exit2", "", "bad switch"),
     Outcome("notfound", "", ""), Outcome("timeout", "partial", ""), Outcome("none", "", ""),
     Outcome("exit0", "10%\r50%\r100%\r\ndone\r\n", "warn\r\nmore"),
     Outcome("exit1", "a\r\r\nb", " e1\re2 ")}

\* the file system, with and without the directory C:\proj\sub
ExecWorlds ==
    {[dirs |-> ds, files |-> {"C:\\proj\\tmp.txt"}, cwd |-> "C:\\proj", getwd |-> g] :
        ds \in {{"C:\\", "C:\\proj", "C:\\proj\\sub"}, {"C:\\", "C:\\proj"}}, g \in BOOLEAN}

\* the directories the executor can come to store
\* Execute, tabulated over the calls of this specification
ExecDirs == {"C:\\", "C:\\proj", "C:\\proj\\sub", "C:\\proj\\SUB", "C:\\gone", "."}

Executions ==
    [d \in ExecDirs, c \in ExecCommands, w \in ExecWorlds, o \in ExecOutcomes |->
        Execute(d, c.command, c.shell, w, o)]

\* exec.CommandContext and cmd.Run: the subprocess has ended when Execute
\* returns, killed when the deadline passed
ProcessEnd(spawned, outcome) ==
    IF ~spawned THEN "none" ELSE IF outcome.kind = "timeout" THEN "killed" ELSE "exited"

InitExec ==
    /\ probe \in {[op |-> "Execute", WorkingDir |-> d, world |-> w, cd |-> "", last |-> [n |-> 0], done |-> FALSE] :
                      d \in {"C:\\proj", "C:\\proj\\sub", "C:\\gone"}, w \in ExecWorlds}
    /\ InitSession

CallExecute(c, outcome) ==
    LET Returned_(r) ==
            /\ (outcome.kind = "none") = ~r.spawned
            /\ probe' = [probe EXCEPT
                        !.WorkingDir = r.WorkingDir,
                        !.cd = IF r.result.NewWorkDir # "" THEN r.result.NewWorkDir ELSE @,
                        !.last = [n |-> probe.last.n + 1, command |-> c.command, outcome |-> outcome,
                                  before |-> probe.WorkingDir,
                                  world |-> probe.world,
                                  existed |-> Stat(probe.world, probe.WorkingDir) # "none",
                                  cd |-> probe.cd,
                                  cdExists |-> Stat(probe.world, probe.cd) = "dir",
                                  spawned |-> IF r.spawned THEN 1 ELSE 0,
                                  ranIn |-> IF r.spawned THEN r.WorkingDir ELSE "",
                                  process |-> ProcessEnd(r.spawned, outcome),
                                  after |-> r.WorkingDir,
                                  result |-> r.result]]
    IN /\ probe.op = "Execute"
       /\ probe.last.n < MaxCalls
       /\ Returned_(Executions[probe.WorkingDir, c, probe.world, outcome])
       /\ UNCHANGED session

\* the environment deletes a directory, and what is below it, behind the
\* executor's back
RemoveDir(d) ==
    /\ probe.op = "Execute"
    /\ d \in probe.world.dirs
    /\ d \notin {"C:\\", probe.world.cwd}
    /\ probe' = [probe EXCEPT !.world.dirs = {e \in @ : ~HasPrefix(e, d)}]
    /\ UNCHANGED session

NextExec ==
    \/ \E c \in ExecCommands, o \in ExecOutcomes : CallExecute(c, o)
    \/ \E d \in {"C:\\proj\\sub"} : RemoveDir(d)

SpecExec == InitExec /\ [][NextExec]_vars

Called == probe.op = "Execute" /\ probe.last.n > 0

\* the command is a change of directory in the words of the specification
StartsFold(command, prefix) ==
    Len(command) >= Len(prefix) /\ ToLower(SubSeq(command, 1, Len(prefix))) = prefix

IsDirChange(command) == \E p \in {"cd ", "set-location ", "sl "} : StartsFold(command, p)

\* the directory a target names, seen from the directory stored before the call
ResolvedFrom(dir, target) == Clean(IF IsAbs(target) THEN target ELSE Join(dir, target))

LastTarget == ResolvedFrom(probe.last.before, extractCDTarget(probe.last.command).target)

C15_FailedChangeKeepsDir ==
    (Called /\ IsDirChange(probe.last.command) /\ Stat(probe.last.world, LastTarget) # "dir") =>
        /\ ~probe.last.result.Success
        /\ probe.last.result.Error # ""
        /\ probe.last.after = probe.last.before
        /\ probe.last.result.CurrentWorkDir = probe.last.before
        /\ probe.last.result.NewWorkDir = ""

C15_Witness ==
    /\ Called
    /\ probe.last.command = "cd tmp.txt"
    /\ probe.last.before = "C:\\proj"
    /\ Stat(probe.last.world, LastTarget) = "file"
    /\ ~probe.last.result.Success
    /\ probe.WorkingDir = "C:\\proj"

\* C16: every Result carries as CurrentWorkDir the directory the executor
\* stores when Execute returns, and a NewWorkDir only when the call was a
\* successful change of directory.
C16_CurrentDirReported ==
    Called =>
        /\ probe.last.result.CurrentWorkDir = probe.last.after
        /\ probe.last.result.NewWorkDir # "" =>
              (probe.last.spawned = 0 /\ probe.last.result.Success
               /\ extractCDTarget(probe.last.command).ok)

C16_Witness ==
    /\ Called
    /\ probe.last.outcome.kind = "timeout"
    /\ ~probe.last.existed
    /\ probe.last.before # probe.last.after
    /\ probe.last.result.CurrentWorkDir = "C:\\proj"
    /\ probe.last.result.NewWorkDir = ""

\* C17 (as claimed): whenever Execute is called while the stored directory
\* is missing, the directory is replaced by the process's directory before
\* anything else, the command runs, and the new directory is reported.
C17_FallbackAsClaimed ==
    (Called /\ ~probe.last.existed) =>
        /\ probe.last.after = (IF probe.last.world.getwd THEN probe.last.world.cwd ELSE ".")
        /\ probe.last.result.CurrentWorkDir = probe.last.after
        /\ probe.last.spawned = 1

\* the text of a failed process: what it wrote to stderr, else the error of Run
FailureText(outcome) ==
    IF TrimSpace(outcome.stderr) # "" THEN TrimSpace(outcome.stderr)
    ELSE IF outcome.kind = "exit1" THEN "exit status 1"
    ELSE IF outcome.kind = "exit2" THEN "exit status 2"
    ELSE "exec: executable file not found in %PATH%"

IsSearch(command) ==
    \E sig \in {"select-string", "grep", "findstr"} : OccursIgnoringCase(command, sig)

\* C18: a process that exits with code 1 under a command holding
\* select-string, grep or findstr gives a failure with the error "No matches
\* found"; every other failed process gives a failure whose error is its
\* stderr, or the error of Run when stderr is empty; and no other result
\* carries "No matches found", unless the process wrote just that.
C18_SearchMiss ==
    /\ (Called /\ probe.last.outcome.kind \in {"exit1", "exit2", "notfound"}) =>
          /\ ~probe.last.result.Success
          /\ probe.last.result.Error =
                (IF probe.last.outcome.kind = "exit1" /\ IsSearch(probe.last.command)
                 THEN "No matches found" ELSE FailureText(probe.last.outcome))
    /\ (Called /\ probe.last.result.Error = "No matches found"
              /\ TrimSpace(probe.last.outcome.stderr) # "No matches found") =>
          (probe.last.outcome.kind = "exit1" /\ IsSearch(probe.last.command))

C18_Witness ==
    /\ Called
    /\ probe.last.command = "GREP -r x ."
    /\ probe.last.outcome = Outcome("exit1", "out", " Access is denied.\r\n")
    /\ probe.last.result.Error = "No matches found"
    /\ ~probe.last.result.Success

MaxRecords == 22

\* the window and the threshold of NewMemory, of the compaction test, and a
\* small pair
MemoryConfigs ==
    {[MaxExchanges |-> DefaultMaxExchanges, CompactAfter |-> DefaultCompactAfter],
     [MaxExchanges |-> 3, CompactAfter |-> 5],
     [MaxExchanges |-> 2, CompactAfter |-> 2]}

InitMemory ==
    /\ probe \in {[op |-> "Memory",
                   mem |-> [NewMemory(ProcessDir) EXCEPT !.MaxExchanges = c.MaxExchanges,
                                                         !.CompactAfter = c.CompactAfter],
                   note |-> <<>>, noteDir |-> nd, recorded |-> <<>>, done |-> FALSE] :
                      c \in MemoryConfigs, nd \in BOOLEAN}
    /\ InitSession

CallRecordExchange(userInput) ==
    LET Recorded(r) ==
            probe' = [probe EXCEPT
                        !.mem = r.mem,
                        !.note = IF probe.noteDir THEN @ \o r.old ELSE @,
                        !.recorded = Append(@, r.mem.Exchanges[Len(r.mem.Exchanges)])]
    IN /\ probe.op = "Memory"
       /\ Len(probe.recorded) < MaxRecords
       /\ Recorded(RecordExchange(probe.mem, userInput, "cmd", "result", "response"))
       /\ UNCHANGED session

NextMemory == \E n \in {Len(probe.recorded) + 1} : CallRecordExchange("msg" \o ToString(n))

SpecMemory == InitMemory /\ [][NextMemory]_vars

\* C20 (as claimed): once RecordExchange has been called more often than the
\* compaction threshold, the exchanges kept in memory never number more than
\* MaxExchanges again, and the daily note exists and holds the exchanges
\* that left memory.
C20_WindowAsClaimed ==
    (probe.op = "Memory" /\ Len(probe.recorded) > probe.mem.CompactAfter) =>
        /\ Len(probe.mem.Exchanges) <= probe.mem.MaxExchanges
        /\ probe.note # <<>>
        /\ probe.note \o probe.mem.Exchanges = probe.recorded

(***************************************************************************)
(* memory.Memory as a store: RecordExchange, Clear, Save, Load, GetContext *)
(* and GetHistory called in any order on one Memory over one data          *)
(* directory.  m.Exchanges is a Go slice: a window [lo, lo + len) on a     *)
(* backing array, so that a slice handed out earlier can be told from a    *)
(* copy.                                                                   *)
(***************************************************************************)
MaxOps == 5

GetContext_Whole(m) ==
    [WorkingDirectory |-> m.WorkingDir, LastAction |-> m.LastAction, LastCreated |-> m.LastCreated,
     RecentExchanges |-> m.Exchanges]

\* GetContext: the working directory, the hints and the last MaxExchanges
\* exchanges
GetContext(m) ==
    LET n == Len(m.Exchanges)
    IN [WorkingDirectory |-> m.WorkingDir, LastAction |-> m.LastAction, LastCreated |-> m.LastCreated,
        RecentExchanges |-> IF n > m.MaxExchanges THEN SubSeq(m.Exchanges, n - m.MaxExchanges + 1, n)
                            ELSE m.Exchanges]

\* Save: memory.json, every string written as a JSON string literal; no file
\* is <<>>
SaveFile(m) ==
    <<[WorkingDir |-> Quote(m.WorkingDir), LastAction |-> Quote(m.LastAction),
       LastCreated |-> Quote(m.LastCreated),
       Exchanges |-> [i \in 1..Len(m.Exchanges) |->
                        [UserInput |-> Quote(m.Exchanges[i].UserInput),
                         Command |-> Quote(m.Exchanges[i].Command),
                         Result |-> Quote(m.Exchanges[i].Result),
                         Response |-> Quote(m.Exchanges[i].Response)]]]>>

Load_SkipsHints(m, file) ==
    IF file = <<>> THEN [err |-> FALSE, mem |-> m]
    ELSE [err |-> FALSE,
          mem |-> [m EXCEPT !.WorkingDir = ScanString(file[1].WorkingDir, 2).v.s,
                            !.Exchanges = [i \in 1..Len(file[1].Exchanges) |->
                                [UserInput |-> ScanString(file[1].Exchanges[i].UserInput, 2).v.s,
                                 Command |-> ScanString(file[1].Exchanges[i].Command, 2).v.s,
                                 Result |-> ScanString(file[1].Exchanges[i].Result, 2).v.s,
                                 Response |-> ScanString(file[1].Exchanges[i].Response, 2).v.s]]]]

\* Load: no file is a fresh start; otherwise json.Unmarshal into the Memory,
\* which sets the fields that carry a json name and leaves MaxExchanges and
\* CompactAfter alone
Load(m, file) ==
    LET Whole(r, t) == r.ok /\ r.next = Len(t) + 1
        Ok(t) == Whole(ScanString(t, 2), t)
        Str(t) == ScanString(t, 2).v.s
        Texts(doc) ==
            {doc.WorkingDir, doc.LastAction, doc.LastCreated}
            \cup UNION {{doc.Exchanges[i].UserInput, doc.Exchanges[i].Command,
                         doc.Exchanges[i].Result, doc.Exchanges[i].Response} :
                            i \in 1..Len(doc.Exchanges)}
        FromDoc(doc) ==
            [m EXCEPT !.WorkingDir = Str(doc.WorkingDir), !.LastAction = Str(doc.LastAction),
                      !.LastCreated = Str(doc.LastCreated),
                      !.Exchanges = [i \in 1..Len(doc.Exchanges) |->
                                       [UserInput |-> Str(doc.Exchanges[i].UserInput),
                                        Command |-> Str(doc.Exchanges[i].Command),
                                        Result |-> Str(doc.Exchanges[i].Result),
                                        Response |-> Str(doc.Exchanges[i].Response)]]]
        Read(doc) == IF \A t \in Texts(doc) : Ok(t) THEN [err |-> FALSE, mem |-> FromDoc(doc)]
                     ELSE [err |-> TRUE, mem |-> m]
    IN IF file = <<>> THEN [err |-> FALSE, mem |-> m] ELSE Read(file[1])

\* a Go slice of exchanges: id names the backing array in the heap (0 for nil)
NilSlice == [id |-> 0, lo |-> 1, len |-> 0]

ZeroExchange == [UserInput |-> "", Command |-> "", Result |-> "", Response |-> ""]

ReadSlice(heap, s) == IF s.id = 0 THEN <<>> ELSE SubSeq(heap[s.id], s.lo, s.lo + s.len - 1)

\* append(s, x): in place while the backing array has room, otherwise into a
\* new array of twice the length
AppendSlice(heap, s, x) ==
    IF s.id # 0 /\ s.lo + s.len <= Len(heap[s.id])
    THEN [heap |-> [heap EXCEPT ![s.id][s.lo + s.len] = x], slice |-> [s EXCEPT !.len = @ + 1]]
    ELSE [heap |-> Append(heap, [i \in 1..(IF s.len = 0 THEN 1 ELSE 2 * s.len) |->
                                    IF i <= s.len THEN heap[s.id][s.lo + i - 1]
                                    ELSE IF i = s.len + 1 THEN x ELSE ZeroExchange]),
          slice |-> [id |-> Len(heap) + 1, lo |-> 1, len |-> s.len + 1]]

\* json.Unmarshal into a slice: the elements are decoded into the slice from
\* its first position on, growing it as append does
RECURSIVE AppendAll(_, _, _)
AppendAll(heap, s, xs) ==
    IF xs = <<>> THEN [heap |-> heap, slice |-> s]
    ELSE LET Rest(a) == AppendAll(a.heap, a.slice, Tail(xs))
         IN Rest(AppendSlice(heap, s, Head(xs)))

CopySlice_Alias(heap, s) == [heap |-> heap, slice |-> s]

\* make and copy: a new backing array holding the elements of s
CopySlice(heap, s) ==
    [heap |-> Append(heap, ReadSlice(heap, s)), slice |-> [id |-> Len(heap) + 1, lo |-> 1, len |-> s.len]]

\* memory.json left by an earlier session that ran in another directory
OldFile ==
    <<[WorkingDir |-> Quote("C:\\old"), LastAction |-> Quote("bye"), LastCreated |-> Quote("x y"),
       Exchanges |-> [i \in 1..7 |->
                        [UserInput |-> Quote("old" \o ToString(i)), Command |-> Quote(""),
                         Result |-> Quote(""), Response |-> Quote("bye")]]]>>

\* the exchanges recorded in this session, the first one with characters that
\* JSON escapes
NthExchange(n) ==
    IF n = 1
    THEN [UserInput |-> "say \"hi\"", Command |-> "mkdir \"C:\\proj\\new\"", Result |-> "a<b>\n\tc",
          Response |-> "<done>"]
    ELSE [UserInput |-> "msg" \o ToString(n),
          Command |-> IF n = 2 THEN ""
                      ELSE IF n = 3 THEN "explorer C:\\proj\\sub"
                      ELSE IF n = 4 THEN "New-Item -ItemType Directory -Name 'BetaProject'"
                      ELSE IF n = 5 THEN "New-Item notes.txt"
                      ELSE "dir",
          Result |-> "result", Response |-> "response" \o ToString(n)]

InitStore ==
    /\ probe \in {[op |-> "Store",
                   mem |-> [NewMemory(ProcessDir) EXCEPT !.MaxExchanges = c.MaxExchanges,
                                                         !.CompactAfter = c.CompactAfter],
                   file |-> f, heap |-> <<>>, slice |-> NilSlice, snaps |-> {}, ops |-> 0, n |-> 0,
                   last |-> [op |-> "none", before |-> NewMemory(ProcessDir), file |-> <<>>, err |-> FALSE]] :
                      c \in MemoryConfigs, f \in {<<>>, OldFile}}
    /\ InitSession

StoreRecord ==
    LET Kept(a, old) ==
            [a.slice EXCEPT !.lo = @ + Len(old), !.len = @ - Len(old)]
        Recorded(r, a) ==
            probe' = [probe EXCEPT !.mem = r.mem, !.heap = a.heap, !.slice = Kept(a, r.old),
                                   !.ops = @ + 1, !.n = @ + 1,
                                   !.last = [op |-> "RecordExchange", before |-> probe.mem,
                                             file |-> probe.file, err |-> FALSE]]
        Call(x) == Recorded(RecordExchange(probe.mem, x.UserInput, x.Command, x.Result, x.Response),
                            AppendSlice(probe.heap, probe.slice, x))
    IN /\ probe.op = "Store"
       /\ probe.ops < MaxOps
       /\ Call(NthExchange(probe.n + 1))
       /\ UNCHANGED session

StoreClear ==
    /\ probe.op = "Store"
    /\ probe.ops < MaxOps
    /\ probe' = [probe EXCEPT !.mem = Clear(probe.mem), !.slice = NilSlice, !.ops = @ + 1,
                              !.last = [op |-> "Clear", before |-> probe.mem, file |-> probe.file,
                                        err |-> FALSE]]
    /\ UNCHANGED session

StoreSave ==
    /\ probe.op = "Store"
    /\ probe.ops < MaxOps
    /\ probe' = [probe EXCEPT !.file = SaveFile(probe.mem), !.ops = @ + 1,
                              !.last = [op |-> "Save", before |-> probe.mem, file |-> probe.file,
                                        err |-> FALSE]]
    /\ UNCHANGED session

StoreLoad ==
    LET Loaded(l, a) ==
            probe' = [probe EXCEPT !.mem = l.mem,
                                   !.heap = IF probe.file = <<>> \/ l.err THEN @ ELSE a.heap,
                                   !.slice = IF probe.file = <<>> \/ l.err THEN @
                                             ELSE IF l.mem.Exchanges = <<>> THEN NilSlice ELSE a.slice,
                                   !.ops = @ + 1,
                                   !.last = [op |-> "Load", before |-> probe.mem, file |-> probe.file,
                                             err |-> l.err]]
        Into(l) == Loaded(l, AppendAll(probe.heap, [probe.slice EXCEPT !.len = 0], l.mem.Exchanges))
    IN /\ probe.op = "Store"
       /\ probe.ops < MaxOps
       /\ Into(Load(probe.mem, probe.file))
       /\ UNCHANGED session

StoreGetHistory ==
    LET Got(c) ==
            probe' = [probe EXCEPT !.heap = c.heap,
                                   !.snaps = @ \cup {[slice |-> c.slice, was |-> GetHistory(probe.mem)]},
                                   !.ops = @ + 1,
                                   !.last = [op |-> "GetHistory", before |-> probe.mem,
                                             file |-> probe.file, err |-> FALSE]]
    IN /\ probe.op = "Store"
       /\ probe.ops < MaxOps
       /\ Got(CopySlice(probe.heap, probe.slice))
       /\ UNCHANGED session

NextStore == StoreRecord \/ StoreClear \/ StoreSave \/ StoreLoad \/ StoreGetHistory

SpecStore == InitStore /\ [][NextStore]_vars

\* C21: after any sequence of RecordExchange, Clear and Load calls, GetContext
\* returns at most MaxExchanges exchanges, and they are the last ones of the
\* list in memory in their order; GetHistory returns the whole list, and a
\* list it returned earlier still reads as it did when it was returned.
C21_WindowAndHistory ==
    probe.op = "Store" =>
        LET all == probe.mem.Exchanges
            Window(recent) ==
                /\ Len(recent) <= probe.mem.MaxExchanges
                /\ Len(recent) = MinOf({Len(all), probe.mem.MaxExchanges})
                /\ \A i \in 1..Len(recent) : recent[i] = all[Len(all) - Len(recent) + i]
        IN /\ Window(GetContext(probe.mem).RecentExchanges)
           /\ GetHistory(probe.mem) = all
           /\ ReadSlice(probe.heap, probe.slice) = all
           /\ \A snap \in probe.snaps : ReadSlice(probe.heap, snap.slice) = snap.was

\* a list longer than the window, reached through a Load, with an earlier
\* GetHistory result that differs from the list now
C21_Witness ==
    /\ probe.op = "Store"
    /\ Len(probe.mem.Exchanges) > probe.mem.MaxExchanges
    /\ probe.last.op \in {"RecordExchange", "Load"}
    /\ \E snap \in probe.snaps : snap.was # <<>> /\ snap.was # probe.mem.Exchanges

\* C22: Save followed by Load into a fresh Memory over the same data
\* directory reproduces the working directory, both hints and the exchange
\* list; Load without a saved document reports no error and changes nothing.
C22_SaveLoadRoundTrip ==
    probe.op = "Store" =>
        LET Same(l) ==
                /\ ~l.err
                /\ l.mem.WorkingDir = probe.mem.WorkingDir
                /\ l.mem.LastAction = probe.mem.LastAction
                /\ l.mem.LastCreated = probe.mem.LastCreated
                /\ l.mem.Exchanges = probe.mem.Exchanges
        IN /\ Same(Load(NewMemory(ProcessDir), SaveFile(probe.mem)))
           /\ (probe.last.op = "Load" /\ probe.last.file = <<>>) =>
                  (~probe.last.err /\ probe.mem = probe.last.before)

\* a Save followed, after other calls, by a Load that brings back a state
\* with the exchange whose text JSON escapes
C22_Witness ==
    /\ probe.op = "Store"
    /\ probe.last.op = "Load"
    /\ probe.last.file = SaveFile(probe.mem)
    /\ probe.last.before # probe.mem
    /\ \E i \in 1..Len(probe.mem.Exchanges) : probe.mem.Exchanges[i] = NthExchange(1)

\* C23: Clear empties the exchange list and resets both hints, so GetContext
\* and GetHistory return no exchanges; the working directory, MaxExchanges and
\* CompactAfter stay as they were.
C23_ClearResets ==
    (probe.op = "Store" /\ probe.last.op = "Clear") =>
        /\ probe.mem.Exchanges = <<>>
        /\ probe.mem.LastAction = ""
        /\ probe.mem.LastCreated = ""
        /\ GetContext(probe.mem).RecentExchanges = <<>>
        /\ GetContext(probe.mem).LastAction = ""
        /\ GetContext(probe.mem).LastCreated = ""
        /\ GetHistory(probe.mem) = <<>>
        /\ probe.mem.WorkingDir = probe.last.before.WorkingDir
        /\ probe.mem.MaxExchanges = probe.last.before.MaxExchanges
        /\ probe.mem.CompactAfter = probe.last.before.CompactAfter

\* Clear on a Memory that held exchanges and both hints, in a working
\* directory other than the initial one
C23_Witness ==
    /\ probe.op = "Store"
    /\ probe.last.op = "Clear"
    /\ probe.last.before.Exchanges # <<>>
    /\ probe.last.before.LastAction # ""
    /\ probe.last.before.LastCreated # ""
    /\ probe.last.before.WorkingDir # ProcessDir

(***************************************************************************)
(* Turns of the session that overlap                                       *)
(***************************************************************************)
\* the turns whose pipeline has not resolved: planning, waiting for the
\* answer to a confirmation, or with an Execute scheduled or its result not
\* yet handled
ActiveTurns == {i \in 1..Len(turns) : turns[i].stage \in {"planning", "confirm", "execute", "confirmed"}}

\* C24 (as claimed): at most one turn is active at a time, and no inference
\* runs while a command is executing, while its result waits to be handled,
\* or while a plan is pending confirmation.
C24_OneTurnAsClaimed ==
    /\ Cardinality(ActiveTurns) <= 1
    /\ inferring # {} => (executing = {} /\ execDone = {} /\ pendingConfirm = <<>>)

\* C25 (as claimed): a step taken while an Execute call is in flight (its
\* turn is in executing before and after the step) leaves the memory as it
\* is: no RecordExchange, no Clear, no write of the working directory.
C25_NoMutationInFlightAsClaimed ==
    [][(executing \cap executing' # {}) => mem' = mem]_vars

\* The accesses to the fields of the Memory that the handlers of Update are
\* about to make, and those of the planning tasks that run in the background.
\* locked tells whether the access is made inside a method that holds m.mu.
UpdateAccesses ==
    UNION {{[by |-> "RecordExchange", field |-> f, write |-> TRUE, locked |-> TRUE] :
                f \in {"Exchanges", "LastAction", "LastCreated"}}
           \cup {[by |-> "handleExecResult", field |-> "WorkingDir", write |-> FALSE, locked |-> FALSE]}
           \cup {[by |-> "handleExecResult", field |-> "WorkingDir", write |-> TRUE, locked |-> FALSE] :
                    w \in {msg.result.CurrentWorkDir} \ {"", mem.WorkingDir}}
           \cup {[by |-> "Save", field |-> f, write |-> FALSE, locked |-> TRUE] :
                    f \in {"Exchanges", "LastAction", "LastCreated", "WorkingDir"}} :
           msg \in execDone}
    \cup {[by |-> "Clear", field |-> f, write |-> TRUE, locked |-> TRUE] :
            f \in {"Exchanges", "LastAction", "LastCreated"}, free \in {processing} \ {TRUE}}

PlanAccesses ==
    UNION {{[by |-> "GetContext", field |-> f, write |-> FALSE, locked |-> TRUE] :
                f \in {"Exchanges", "LastAction", "LastCreated", "WorkingDir"}}
           \cup {[by |-> "Plan", field |-> "WorkingDir", write |-> FALSE, locked |-> FALSE]} :
           c \in inferring}

\* two accesses to one field, one of them a write, not both under the lock
Races ==
    {<<a, b>> \in UpdateAccesses \X PlanAccesses :
        a.field = b.field /\ (a.write \/ b.write) /\ ~(a.locked /\ b.locked)}

\* C26 (as claimed): the accesses to the memory state are serialized by the
\* lock, so that no read made by a planning task in the background runs
\* unserialized with a write to the same state.
C26_SerializedAsClaimed == Races = {}

\* C27 (as claimed): whenever no turn is active, as at start-up and after
\* every completed turn, the working directory of the memory is the working
\* directory of the executor.
C27_DirsInSyncAsClaimed ==
    ActiveTurns = {} => mem.WorkingDir = executorDir

(***************************************************************************)
(* The repair pass and the stripping of the working directory              *)
(***************************************************************************)
\* the content of a JSON string read from the left: a backslash forms a unit
\* with the character after it (with "u" and four hex digits when they
\* follow), every other character is a unit of its own
RECURSIVE UnitsFrom(_, _)
UnitsFrom(t, i) ==
    IF i > Len(t) THEN <<>>
    ELSE IF CharAt(t, i) # "\\" THEN <<CharAt(t, i)>> \o UnitsFrom(t, i + 1)
    ELSE IF i = Len(t) THEN <<"\\">>
    ELSE IF CharAt(t, i + 1) = "u" /\ i + 5 <= Len(t) /\ \A h \in (i + 2)..(i + 5) : IsHex(CharAt(t, h))
    THEN <<SubSeq(t, i, i + 5)>> \o UnitsFrom(t, i + 6)
    ELSE <<SubSeq(t, i, i + 1)>> \o UnitsFrom(t, i + 2)

IsEscape(u) == Len(u) > 1
\* an escape the repair pass is meant to keep
IsValidEscape(u) == Len(u) = 6 \/ (Len(u) = 2 /\ CharAt(u, 2) \in validEscapes \ {"u"})
\* a backslash before a character that is no escape letter
IsPathBackslash(u) == Len(u) = 2 /\ CharAt(u, 2) \notin validEscapes \cup {"b", "f"}

\* the text a unit stands for once the backslashes of paths are taken literally
MeantBy(u) ==
    IF Len(u) = 6 THEN Rune(SubSeq(u, 3, 6))
    ELSE IF Len(u) = 2 /\ CharAt(u, 2) \in validEscapes THEN Unescape(CharAt(u, 2))
    ELSE u

Meant(units) == ConcatRange([k \in 1..Len(units) |-> MeantBy(units[k])], 1, Len(units))

\* C28 (as claimed): on a candidate whose escapes are all valid, an escaped
\* backslash followed by any character among them, the repair pass is the
\* identity.
C28_RepairIdentityAsClaimed ==
    (probe.op = "Repair" /\ probe.done) =>
        LET Valid(units) ==
                /\ units # <<>> => units[Len(units)] # "\\"
                /\ \A k \in 1..Len(units) : IsEscape(units[k]) => IsValidEscape(units[k])
        IN Valid(UnitsFrom(probe.in.body, 1)) => probe.out.repaired = probe.out.candidate

\* C29 (as claimed): when the candidate is a valid plan but for backslashes
\* before characters that are no escape letters, ParseResponse succeeds and
\* the decoded string holds each of them as a backslash followed by that
\* character.
C29_PathsRepairedAsClaimed ==
    (probe.op = "Repair" /\ probe.done) =>
        LET Broken(units) ==
                /\ \E k \in 1..Len(units) : IsPathBackslash(units[k])
                /\ \A k \in 1..Len(units) :
                       IsEscape(units[k]) => (IsValidEscape(units[k]) \/ IsPathBackslash(units[k]))
                /\ units[Len(units)] # "\\"
            Repaired(units) ==
                /\ probe.out.result.err = ""
                /\ probe.out.result.plan.Response = Meant(units)
            Holds(units) == Broken(units) => Repaired(units)
        IN Holds(UnitsFrom(probe.in.body, 1))

\* C30 (as claimed): the command Plan returns holds no copy of the working
\* directory followed by a separator, in the form of the memory, with
\* forward slashes or with backslashes, in any letter case.
C30_NoDirCopyAsClaimed ==
    (probe.op = "Plan" /\ probe.done /\ probe.out.err = "" /\ probe.out.plan.Command # <<>>) =>
        \A form \in {ProbeDir \o "\\", ProbeDir \o "/", ReplaceAll(ProbeDir, "\\", "/") \o "/",
                     ReplaceAll(ProbeDir, "/", "\\") \o "\\"} :
            ~Contains(ToLower(probe.out.plan.Command[1]), ToLower(form))

(***************************************************************************)
(* Planner.buildMessages                                                   *)
(***************************************************************************)
buildMessages_AllRecent(m, userInput) ==
    LET History(exchanges) ==
            [i \in 1..(2 * Len(exchanges)) |->
                IF i % 2 = 1 THEN [Role |-> "user", Content |-> exchanges[(i + 1) \div 2].UserInput]
                ELSE [Role |-> "assistant", Content |-> exchanges[i \div 2].Response]]
    IN History(m.Exchanges)
       \o <<[Role |-> "user",
             Content |-> userInput \o "\n\n[CWD: " \o ReplaceAll(m.WorkingDir, "\\", "/") \o "]"]>>

\* buildMessages with a memory: the last two exchanges of the context as a user
\* message and the JSON of a historyPlan each, then the input with the
\* working directory written with forward slashes
buildMessages(m, userInput) ==
    LET LastTwo(recent) == IF Len(recent) > 2 THEN SubSeq(recent, Len(recent) - 1, Len(recent)) ELSE recent
        Answer(ex) ==
            Marshal([Command |-> IF ex.Command # "" THEN <<ex.Command>> ELSE <<>>, Shell |-> "powershell",
                     Response |-> ex.Response, Reasoning |-> "executed", Safe |-> TRUE])
        History(exchanges) ==
            [i \in 1..(2 * Len(exchanges)) |->
                IF i % 2 = 1 THEN [Role |-> "user", Content |-> exchanges[(i + 1) \div 2].UserInput]
                ELSE [Role |-> "assistant", Content |-> Answer(exchanges[i \div 2])]]
        Built(ctx) ==
            History(LastTwo(ctx.RecentExchanges))
            \o <<[Role |-> "user",
                  Content |-> userInput \o "\n\n[CWD: " \o ReplaceAll(ctx.WorkingDirectory, "\\", "/") \o "]"]>>
    IN Built(GetContext(m))

\* C31: the messages built for a turn replay the last min(2, n) of the n
\* stored exchanges, oldest first, each as a user message followed by an
\* assistant message, and end with one user message: the raw input followed
\* by an annotation of the working directory that holds no backslash.
C31_MessagesBuilt ==
    probe.op = "Store" =>
        \A input \in {"list files", "open C:\\x"} :
            LET all == probe.mem.Exchanges
                Replayed(msgs, k) ==
                    /\ Len(msgs) = 2 * k + 1
                    /\ \A i \in 1..k :
                          /\ msgs[2 * i - 1] = [Role |-> "user", Content |-> all[Len(all) - k + i].UserInput]
                          /\ msgs[2 * i].Role = "assistant"
                          /\ Contains(msgs[2 * i].Content, Quote(all[Len(all) - k + i].Response))
                    /\ msgs[2 * k + 1].Role = "user"
                    /\ HasPrefix(msgs[2 * k + 1].Content, input \o "\n\n[CWD: ")
                    /\ ~Contains(SubSeq(msgs[2 * k + 1].Content, Len(input) + 1,
                                        Len(msgs[2 * k + 1].Content)), "\\")
                    /\ Contains(msgs[2 * k + 1].Content,
                                "[CWD: " \o ReplaceAll(probe.mem.WorkingDir, "\\", "/") \o "]")
            IN Replayed(buildMessages(probe.mem, input), MinOf({2, Len(all)}))

\* a memory with more than two exchanges, the one with escaped characters
\* among the last two, in a directory written with backslashes
C31_Witness ==
    /\ probe.op = "Store"
    /\ probe.last.op = "RecordExchange"
    /\ Len(probe.mem.Exchanges) > 2
    /\ Contains(probe.mem.WorkingDir, "\\")
    /\ probe.mem.Exchanges[Len(probe.mem.Exchanges) - 1] = NthExchange(1)

(***************************************************************************)
(* Compaction and the daily note                                           *)
(***************************************************************************)
\* the step of a RecordExchange call that compacts
Compacting == probe.op = "Memory" /\ Len(probe.mem.Exchanges) + 1 > probe.mem.CompactAfter

\* the last n elements of a list
LastN(list, n) == SubSeq(list, Len(list) - n + 1, Len(list))

C33_FailedNoteKeepsWindow ==
    [][(Compacting /\ ~probe.noteDir) =>
          /\ Len(probe'.recorded) = Len(probe.recorded) + 1
          /\ probe'.mem.Exchanges = LastN(probe'.recorded, probe.mem.MaxExchanges)
          /\ probe'.mem.Exchanges[probe.mem.MaxExchanges].UserInput = "msg" \o ToString(Len(probe'.recorded))
          /\ probe'.mem.LastAction = "response"
          /\ probe'.mem.WorkingDir = probe.mem.WorkingDir
          /\ probe'.note = <<>>]_vars

\* a compaction whose note could not be written has trimmed the list
C33_Witness ==
    /\ probe.op = "Memory"
    /\ ~probe.noteDir
    /\ Len(probe.recorded) > probe.mem.CompactAfter
    /\ Len(probe.mem.Exchanges) = probe.mem.MaxExchanges
    /\ Len(probe.recorded) > Len(probe.mem.Exchanges)

\* C34: after every call of RecordExchange the last-action hint is the
\* response of that call; the last-created hint is the name or path taken
\* from the command when the command holds new-item, mkdir or explorer, and
\* is the hint of before the call for every other command.
C34_HintsUpdated ==
    [][(probe.op = "Store" /\ probe'.last.op = "RecordExchange" /\ probe'.ops = probe.ops + 1) =>
          LET Hinted(x, lower) ==
                  /\ probe'.mem.LastAction = x.Response
                  /\ probe'.mem.LastCreated =
                        IF x.Command = "mkdir \"C:\\proj\\new\"" THEN "C:\\proj\\new"
                        ELSE IF x.Command = "explorer C:\\proj\\sub" THEN "C:\\proj\\sub"
                        ELSE IF x.Command = "New-Item -ItemType Directory -Name 'BetaProject'" THEN "BetaProject"
                        ELSE IF Contains(lower, "new-item") THEN ""
                        ELSE probe.mem.LastCreated
          IN Hinted(NthExchange(probe.n + 1), ToLower(NthExchange(probe.n + 1).Command))]_vars

\* a hint taken from a command has survived an exchange without a command,
\* and a later command has replaced it
C34_Witness ==
    /\ probe.op = "Store"
    /\ probe.last.op = "RecordExchange"
    /\ probe.n = 3
    /\ probe.last.before.LastCreated = "C:\\proj\\new"
    /\ probe.last.before.LastAction = "response2"
    /\ probe.mem.LastCreated = "C:\\proj\\sub"

\* C35: the Output of every Result of Execute holds no carriage return:
\* stderr, when not empty, follows stdout, every \r\n has become \n, of each
\* line only the text after its last \r is left, and cleaning the Output
\* once more gives the same text.
C35_OutputCleaned ==
    (probe.op = "Execute" /\ probe.last.n > 0) =>
        LET Cleaned(output, o) ==
                /\ ~Contains(output, "\r")
                /\ cleanTerminalOutput(output) = output
                /\ o = Outcome("exit0", "10%\r50%\r100%\r\ndone\r\n", "warn\r\nmore")
                      => output = "100%\ndone\nwarn\nmore"
                /\ o = Outcome("exit1", "a\r\r\nb", " e1\re2 ") => output = "\nb\ne2"
                /\ o = Outcome("exit0", "tmp.txt\r\n", "") => output = "tmp.txt"
                /\ o = Outcome("exit1", "out", " Access is denied.\r\n") => output = "out\nAccess is denied."
                /\ o = Outcome("exit0", "", "hello stderr") => output = "hello stderr"
        IN Cleaned(probe.last.result.Output, probe.last.outcome)

\* a subprocess that redrew a line with \r and wrote to both streams has
\* returned
C35_Witness ==
    /\ probe.op = "Execute"
    /\ probe.last.n > 0
    /\ probe.last.spawned = 1
    /\ probe.last.outcome = Outcome("exit0", "10%\r50%\r100%\r\ndone\r\n", "warn\r\nmore")
    /\ probe.last.result.Output = "100%\ndone\nwarn\nmore"

(***************************************************************************)
(* The process and its children: main, LlamaServer.Start and Stop, the     *)
(* subprocesses of Execute                                                 *)
(*                                                                         *)
(* probe holds where main is (main: "init" before server.Start, "ui" while *)
(* the Bubble Tea program runs, "exited"), how the process ended (how),    *)
(* the llama-server ("none", "running" as a child, "external" when one of  *)
(* an earlier session answers on the port, "gone" when it ended by itself, *)
(* "killed"), the field s.running, the shell subprocesses that run         *)
(* (shells), whether a Plan call is in flight (planning), and the signal   *)
(* handler's position (sig).                                               *)
(***************************************************************************)
MaxShells == 2

InitExit ==
    /\ probe = [op |-> "Exit", main |-> "init", how |-> "", server |-> "none", running |-> FALSE,
                shells |-> {}, spawned |-> 0, planning |-> FALSE, sig |-> "none"]
    /\ InitSession

\* LlamaServer.Stop: kills and reaps the child it started, when s.running
Stop(p) ==
    IF ~p.running THEN p
    ELSE [p EXCEPT !.server = IF @ = "running" THEN "killed" ELSE @, !.running = FALSE]

\* main: server.Start, then the program of the front end, or log.Fatalf
ServerStart(outcome) ==
    /\ probe.op = "Exit"
    /\ probe.main = "init"
    /\ probe' = IF outcome = "ready"
                THEN [probe EXCEPT !.server = "running", !.running = TRUE, !.main = "ui"]
                ELSE IF outcome = "port open"
                THEN [probe EXCEPT !.server = "external", !.running = TRUE, !.main = "ui"]
                ELSE IF outcome = "not ready"
                THEN [probe EXCEPT !.server = "killed", !.running = FALSE, !.main = "exited", !.how = "fatal"]
                ELSE [probe EXCEPT !.main = "exited", !.how = "fatal"]
    /\ UNCHANGED session

\* the monitor goroutine of Start: the server ended by itself
ServerDies ==
    /\ probe.op = "Exit"
    /\ probe.main = "ui"
    /\ probe.server = "running"
    /\ probe' = [probe EXCEPT !.server = "gone", !.running = FALSE]
    /\ UNCHANGED session

\* an input starts a turn: Plan runs in the background
TurnBegins ==
    /\ probe.op = "Exit"
    /\ probe.main = "ui"
    /\ ~probe.planning
    /\ probe' = [probe EXCEPT !.planning = TRUE]
    /\ UNCHANGED session

\* Plan has returned; with a command to run, Execute starts its subprocess
PlanReturns(run) ==
    /\ probe.op = "Exit"
    /\ probe.main = "ui"
    /\ probe.planning
    /\ run => probe.spawned < MaxShells
    /\ probe' = IF run
                THEN [probe EXCEPT !.planning = FALSE, !.spawned = @ + 1, !.shells = @ \cup {probe.spawned + 1}]
                ELSE [probe EXCEPT !.planning = FALSE]
    /\ UNCHANGED session

\* cmd.Run returns: the subprocess has ended or the deadline has killed it
ShellEnds(id) ==
    /\ probe.op = "Exit"
    /\ probe.main = "ui"
    /\ id \in probe.shells
    /\ probe' = [probe EXCEPT !.shells = @ \ {id}]
    /\ UNCHANGED session

\* Ctrl+C or /exit: tea.Quit, Run returns, main saves the memory, the
\* deferred server.Stop runs and main returns
UserQuits ==
    /\ probe.op = "Exit"
    /\ probe.main = "ui"
    /\ probe' = [Stop(probe) EXCEPT !.main = "exited", !.how = "quit"]
    /\ UNCHANGED session

\* os.Interrupt or SIGTERM arrives on sigChan
Signal ==
    /\ probe.op = "Exit"
    /\ probe.main # "exited"
    /\ probe.sig = "none"
    /\ probe' = [probe EXCEPT !.sig = "received"]
    /\ UNCHANGED session

\* the handler goroutine: server.Stop()
SignalStop ==
    /\ probe.op = "Exit"
    /\ probe.main # "exited"
    /\ probe.sig = "received"
    /\ probe' = [Stop(probe) EXCEPT !.sig = "stopped"]
    /\ UNCHANGED session

\* the handler goroutine: os.Exit(0)
SignalExit ==
    /\ probe.op = "Exit"
    /\ probe.main # "exited"
    /\ probe.sig = "stopped"
    /\ probe' = [probe EXCEPT !.main = "exited", !.how = "signal"]
    /\ UNCHANGED session

NextExit ==
    \/ \E outcome \in {"ready", "port open", "not ready", "start failed"} : ServerStart(outcome)
    \/ ServerDies
    \/ TurnBegins
    \/ \E run \in BOOLEAN : PlanReturns(run)
    \/ \E id \in 1..MaxShells : ShellEnds(id)
    \/ UserQuits
    \/ Signal
    \/ SignalStop
    \/ SignalExit

SpecExit == InitExit /\ [][NextExit]_vars

\* C36 (as claimed): once the process has exited after an interrupt or after
\* the user quit, no child it started is running: neither the llama-server
\* nor a shell subprocess.
C36_NoChildLeftAsClaimed ==
    (probe.op = "Exit" /\ probe.main = "exited" /\ probe.how \in {"quit", "signal"}) =>
        /\ probe.server # "running"
        /\ probe.shells = {}

\* C37 (as claimed): every exchange in memory that carries a command carries
\* one that Execute has been called with: a refused command is never
\* recorded as the command of a turn.
C37_RecordedWasExecutedAsClaimed ==
    \A i \in 1..Len(mem.Exchanges) :
        mem.Exchanges[i].Command # "" =>
            \E c \in execCalls : c.command = mem.Exchanges[i].Command

(***************************************************************************)
(* The session under fair scheduling: a background command that has been   *)
(* started returns (the HTTP request and the subprocess are bounded by     *)
(* their timeouts), and the program's loop hands every message to Update.  *)
(***************************************************************************)
\* a step in which a call of Plan returns, a call of Execute returns, or
\* Update takes a message of a background command; in the session these are
\* the steps RunInference, RunExecution, InferDone and ExecDone
PlanReturned == ~quit /\ \E c \in inferring : inferring' = inferring \ {c}
ExecuteReturned == ~quit /\ \E turn \in executing : executing' = executing \ {turn}
PlanDelivered == ~quit /\ \E msg \in inferDone : inferDone' = inferDone \ {msg}
ResultDelivered == ~quit /\ \E msg \in execDone : execDone' = execDone \ {msg}

SpecLive ==
    /\ Spec
    /\ WF_inferring(PlanReturned)
    /\ WF_inferDone(PlanDelivered)
    /\ WF_executing(ExecuteReturned)
    /\ WF_execDone(ResultDelivered)

\* the front end takes the next input: as a request or as the answer to a
\* pending confirmation
Accepting ==
    /\ ~processing
    /\ \/ status = "Ready"
       \/ status = "Awaiting confirmation..." /\ pendingConfirm # <<>>

\* C38: when the inference call and the execution return, every input that
\* was submitted leads to a state in which the front end accepts input again
\* (Ready or awaiting confirmation), whichever way the turn goes, unless the
\* user quits first.
C38_TurnReturns == (processing \/ status \in {"Thinking...", "Executing..."}) ~> (Accepting \/ quit)

\* turns have ended in each of the ways a turn can go
C38_Witness ==
    /\ Accepting
    /\ \E i \in 1..Len(turns) : turns[i].stage = "done"
    /\ \E i \in 1..Len(turns) : turns[i].stage \in {"failed", "chat", "refuse", "cancelled", "confirm"}

\* the tiers of Check, the more restrictive the higher
Tier(level) == IF level = "Blocked" THEN 3 ELSE IF level = "NeedsConfirm" THEN 2 ELSE 1

\* C39 (as claimed): whatever command the model proposes and whatever the
\* working directory is, a drive root included, the command Plan returns is
\* rated by Check at least as restrictive as the proposed command.
C39_VerdictKeptAsClaimed ==
    (probe.op = "Sanitize" /\ probe.done /\ probe.out.err = "" /\ probe.out.plan.Command # <<>>) =>
        Tier(Check(probe.out.plan.Command[1]).Level) >= Tier(Check(probe.in.command).Level)

\* C40 (as claimed): the exchange recorded when a turn ends as chat, as
\* refused or with the result of its execution carries the input that
\* started that turn, in whatever order inputs and the completions of
\* inference and execution arrive.
C40_OwnInputRecordedAsClaimed ==
    [][\A id \in 1..Len(turns) :
          (turns'[id].stage # turns[id].stage /\ turns'[id].stage \in {"chat", "refuse", "done"}) =>
              /\ mem'.Exchanges # <<>>
              /\ mem'.Exchanges[Len(mem'.Exchanges)].UserInput = turns[id].input]_vars
====
